---- MODULE Spec2Model ----
(***************************************************************************)
(* Verification model of the nanobot remote execution core:                *)
(*   - nanobot/remote/remote_server.py : handle_connection and its        *)
(*     process-global idempotency cache                                    *)
(*   - nanobot/remote/connection.py    : RemoteHost (setup, transport     *)
(*     recovery, _rpc)                                                     *)
(*   - nanobot/remote/manager.py       : HostManager (connect /           *)
(*     get_or_connect / disconnect)                                        *)
(* Each coroutine is cut at its await points; the code between two awaits  *)
(* is one atomic action, as it is under the asyncio event loop.            *)
(***************************************************************************)
EXTENDS Integers, Sequences, FiniteSets, TLC

(***************************************************************************)
(* Bounds of the model                                                     *)
(***************************************************************************)
\* number of server-side connection slots (a slot is reused by a new
\* connection after its handler has ended)
NumConns == 2
\* number of distinct non-empty request_id values clients may choose
NumRids == 2
\* capacity of the completed-response cache in the model; the program's
\* _REQUEST_CACHE_MAX is 2000, the FIFO logic does not depend on the value
CacheMax == 2
\* total number of handler executions explored on the server
MaxExec == 3
\* total number of messages with a request_id that reach _dispatch_message
\* where the control messages (ping, close, shutdown, unknown type) are
\* explored
MaxControl == 2
\* number of coroutines calling into one RemoteHost concurrently
NumCallers == 2
\* total number of calls (_rpc, setup, teardown) made on the RemoteHost
MaxCalls == 3
\* number of websocket connections the RemoteHost opens
MaxWs == 2
\* number of session ids setup mints
MaxSessions == 2
\* number of distinct non-empty authentication tokens
NumTokens == 2
\* number of coroutines calling into one HostManager concurrently
NumTasks == 2
\* number of host names in the registry
NumNames == 1
\* total number of HostManager calls (connect, get_or_connect, disconnect)
MaxOps == 3
\* number of RemoteHost objects the HostManager creates
MaxHandles == 3
\* number of fresh deploys (session ids minted) through the HostManager
MaxDeploys == 3
\* local ports the operating system can hand out for a tunnel
NumPorts == 2
\* longest file, in bytes
MaxFile == 3
\* longest old_text of edit_file, in code points
MaxText == 2
\* longest new_text of edit_file, in code points
MaxNewText == 1
\* longest content of write_file, in code points
MaxContent == 1

Conns == 1..NumConns
\* request_id 0 stands for an absent (or falsy) request_id
NoRid == 0
RequestIds == 1..NumRids
Commands == {"A", "B"}

\* the message types whose branch of _dispatch_message awaits nothing;
\* "bogus" stands for every type _dispatch_message does not know
ControlTypes == {"ping", "close", "shutdown", "bogus"}

ReuseMsg == "request_id reuse with different payload"
CloseMsg == "Connection closing"
ShutdownMsg == "Server shutting down"
UnknownMsg == "Unknown message type"
HandlerErrMsg == "handler raised"
SendErrMsg == "connection closed"

NoResp == [type |-> "none", request_id |-> NoRid, message |-> "", output |-> 0]
NoMsg == [type |-> "none", request_id |-> NoRid, command |-> ""]
NoHash == <<>>

\* --token absent or empty (falsy)
EmptyToken == 0
\* the first frame is an object without a "token" key: .get gives None
MissingToken == -1
Tokens == 1..NumTokens
AuthFailedMsg == "Authentication failed"
AuthOkMsg == "Connection established"

VARIABLES
    \* ---- remote_server.py ------------------------------------------------
    REQUEST_RESULTS,    \* _REQUEST_RESULTS: request_id -> [hash, response]
    REQUEST_INFLIGHT,   \* _REQUEST_INFLIGHT: request_id -> future, named by
                        \* the connection whose handler created it
    REQUEST_ORDER,      \* _REQUEST_ORDER: deque of request_ids
    spc,                \* per connection: position of handle_connection
    cur,                \* per connection: the message being handled
    curResp,            \* per connection: response about to be sent
    curExec,            \* per connection: which handler execution produced
                        \* (or will produce) the response it waits for
    execCount,          \* number of handler executions (the remote effect)
    \* ---- observation of the server (history variables) -------------------
    dispatched,         \* request_id -> number of dispatches to a handler
    evicted,            \* request_id -> number of cache evictions of its entry
    firstHash,          \* request_id -> payload hash of its first request
    firstResp,          \* request_id -> response produced by its first dispatch
    wire,               \* the frame the server sent in the last step, if any
    auth_token,         \* the token the server was started with
    handshake,          \* the handshake made in the last step, if any: the
                        \* connection, the first frame read and whether the
                        \* connection still took the reply
    stop_event,         \* main's stop_event is set
    received            \* the message read in the last step, if any: the
                        \* connection, the message type and the branch of
                        \* the loop that took it ("fast", "cached", "join",
                        \* "execute")

serverVars == <<REQUEST_RESULTS, REQUEST_INFLIGHT, REQUEST_ORDER,
                spc, cur, curResp, curExec, execCount,
                dispatched, evicted, firstHash, firstResp, wire,
                auth_token, handshake, stop_event, received>>

VARIABLES
    \* ---- connection.py ---------------------------------------------------
    host,       \* the fields of the RemoteHost object
    call,       \* per caller: the call it is in: pc (the await it is
                \* suspended at), op (_rpc, setup or teardown), ret (where
                \* the coroutine it is in returns to), rid (request_id of
                \* the message), attempt (loop variable of _rpc), ws
                \* (websocket object its recv is waiting on);
                \* history: sent (request_ids of the frames this call has
                \* sent), recovs (recoveries this call ran after an error),
                \* deploy (exit status of the deploy script it ran), steps
                \* (the steps its teardown has started), failed (one of
                \* them raised), acked (server_stopped of its teardown)
    wsOpen,     \* websocket objects whose connection is open
    sentReqs,   \* requests sent and not yet answered: <<[ws, rid]>>
    respQ,      \* response frames waiting to be read: <<[ws, rid, type]>>
    calls,      \* number of calls started (request ids are minted from it)
    minted,     \* number of session ids minted by setup
    wsCount,    \* number of websocket connections opened
    returned    \* the call that ended in the last step, if any: the
                \* caller, the operation and the value it got

clientVars == <<host, call, wsOpen, sentReqs, respQ, calls, minted, wsCount,
                returned>>

VARIABLES
    \* ---- manager.py ------------------------------------------------------
    active_session, \* name -> config.active_session: Absent, None
                    \* (NoSession) or the session_id it records
    connections,    \* _connections: name -> handle (NoHandle: no entry)
    lock,           \* _lock: holder (0: unlocked) and the queue of waiters
    handles,        \* the RemoteHost objects created by the manager: name,
                    \* session_id, fresh (made by a fresh setup, not by a
                    \* resume) and state (setup, resume, connected, down,
                    \* failed, teardown, torn)
    nh,             \* number of RemoteHost objects created
    remote,         \* session ids whose remote server is running
    sessCount,      \* number of session ids minted
    mtask,          \* per task: pc (the await it is suspended at), op, name,
                    \* h (handle it works on), sid (session_id read by
                    \* _try_resume), what (the critical section it waits for)
    mops,           \* number of manager calls started
    config,         \* name -> the HostConfig fields local_port, remote_port
                    \* and auth_token
    session_snapshot, \* name -> the keys local_port, remote_port and
                    \* auth_token of the active_session dict
    hosts_json,     \* the registry file: name -> the entry written by the
                    \* last HostsConfig.save
    hosts           \* HostsConfig.hosts: the names of the configured hosts

managerVars == <<active_session, connections, lock, handles, nh, remote,
                 sessCount, mtask, mops, config, session_snapshot,
                 hosts_json, hosts>>

VARIABLES
    \* ---- remote_server.py: FileService ----------------------------------
    disk,       \* the bytes of the file at the path, NoFile if none
    svc         \* the last file operation and what its caller got back

fileVars == <<disk, svc>>

VARIABLES
    \* ---- remote_server.py: CommandExecutor ------------------------------
    use_tmux,   \* the mode the server was started in
    executor,   \* per connection: "none" (no handler in its message loop),
                \* "created" (CommandExecutor built, tmux.running False),
                \* "running" (tmux.running True)
    pane,       \* the shell state of the tmux session on the server's
                \* socket: the value of X, NoPane without a session
    exported,   \* history: the value of X the commands sent to the shell
                \* since the server started have exported last
    exec_result \* the result the last exec gave

execVars == <<use_tmux, executor, pane, exported, exec_result>>

VARIABLES
    tmux_pane,  \* the lines capture-pane prints for the session's pane
    shell,      \* what the shell of the pane is doing
    capture     \* the send_and_capture call: poll loop and result

captureVars == <<tmux_pane, shell, capture>>

serviceVars == <<fileVars, execVars, captureVars>>

vars == <<serverVars, clientVars, managerVars, serviceVars>>


(***************************************************************************)
(* remote_server.py: pure helpers                                          *)
(***************************************************************************)

\* _payload_hash: sha256 of the canonical JSON (sorted keys) of the whole
\* envelope; modelled as the tuple of the fields in sorted key order
\* (sha256 is taken to be collision free).
PayloadHash(data) == <<data.command, data.request_id, data.type>>

\* the while loop of _cache_response: pop from the left while the deque is
\* longer than the bound, dropping the popped id from the results
RECURSIVE Evict(_, _, _)
Evict(results, order, gone) ==
    IF Len(order) > CacheMax
    THEN LET old == Head(order)
         IN Evict([k \in (DOMAIN results) \ {old} |-> results[k]],
                  Tail(order),
                  IF old \in DOMAIN results THEN gone \o <<old>> ELSE gone)
    ELSE [results |-> results, order |-> order, gone |-> gone]

\* _cache_response(request_id, payload_hash, response)
CacheResponse(results, order, rid, hash, resp) ==
    Evict([k \in (DOMAIN results) \cup {rid} |->
             IF k = rid THEN [hash |-> hash, response |-> resp] ELSE results[k]],
          Append(order, rid),
          <<>>)

\* a lookup that does not consult the in-flight map (what C4 excludes)
LookupNoInflight(results, inflight, rid) ==
    IF rid \in DOMAIN results THEN "cached" ELSE "execute"

\* a lookup that does not consult the done cache (what C1 excludes)
LookupNoCache(results, inflight, rid) ==
    IF rid \in DOMAIN inflight THEN "inflight" ELSE "execute"

\* the three-way lookup of handle_connection for a request with request_id:
\* "cached" (done cache), "inflight" (join the future), "execute"
Lookup(results, inflight, rid) ==
    IF rid \in DOMAIN results THEN "cached"
    ELSE IF rid \in DOMAIN inflight THEN "inflight"
    ELSE "execute"

\* answer from the done cache: error on hash mismatch, else cached response
CachedAnswer(entry, rid, hash) ==
    IF entry.hash # hash
    THEN [type |-> "error", request_id |-> rid, message |-> ReuseMsg, output |-> 0]
    ELSE entry.response

\* _dispatch_message for exec: the handler's response; "raise" is an
\* exception escaping the handler, turned into err_resp by the caller
HandlerResponse(data, outcome, n) ==
    IF outcome = "ok"
    THEN [type |-> "result", request_id |-> data.request_id, message |-> "", output |-> n]
    ELSE [type |-> "error", request_id |-> data.request_id, message |-> HandlerErrMsg, output |-> 0]

\* _dispatch_message for ping, close, shutdown and an unknown type
ControlResponse(data) ==
    [type |-> IF data.type = "ping" THEN "pong"
              ELSE IF data.type = "close" THEN "result"
              ELSE IF data.type = "shutdown" THEN "shutdown_ack"
              ELSE "error",
     request_id |-> data.request_id,
     message |-> IF data.type = "ping" THEN ""
                 ELSE IF data.type = "close" THEN CloseMsg
                 ELSE IF data.type = "shutdown" THEN ShutdownMsg
                 ELSE UnknownMsg,
     output |-> 0]

\* should_break, the second component of what _dispatch_message returns
ShouldBreak(type) == type \in {"close", "shutdown"}

\* a close branch that sets the stop event as well
StopEventAfterAnyBreak(stop, type) == stop \/ type \in {"close", "shutdown"}

\* "if stop_event: stop_event.set()" of the shutdown branch
StopEventAfter(stop, type) == stop \/ type = "shutdown"

SendErrResp(rid) ==
    [type |-> "error", request_id |-> rid, message |-> SendErrMsg, output |-> 0]

Bump(f, k) == [f EXCEPT ![k] = @ + 1]

RECURSIVE BumpAll(_, _)
BumpAll(f, s) == IF s = <<>> THEN f ELSE BumpAll(Bump(f, Head(s)), Tail(s))

\* a frame on the wire: the response, the branch that sent it ("fast",
\* "cached", "join", "dispatch"), whether the request's payload is the one
\* first seen with its request_id, and the handler execution it stems from
Sent(resp, kind, same, exec) ==
    [resp |-> resp, kind |-> kind, same |-> same, exec |-> exec]

NoSent == Sent(NoResp, "none", TRUE, 0)

\* the first frame of a connection: a JSON object (with or without a token),
\* JSON that is not an object, or text that is not JSON
FirstFrames ==
    [kind : {"object"}, token : {MissingToken, EmptyToken} \cup Tokens]
    \cup [kind : {"json", "text"}, token : {MissingToken}]

NoHandshake == [conn |-> 0, frame |-> [kind |-> "none", token |-> MissingToken],
                sendOk |-> FALSE]

Received(c, type, path) == [conn |-> c, type |-> type, path |-> path]

NoReceived == Received(0, "none", "none")

\* the two frames the authentication block sends
AuthFrame(type, message) ==
    Sent([type |-> type, request_id |-> NoRid, message |-> message,
          output |-> 0], "auth", TRUE, 0)

\* an authentication block that compares nothing (what C17 excludes)
AuthOutcomeNoCheck(token, frame) ==
    IF frame.kind = "text" THEN "raise" ELSE "accept"

\* the authentication block of handle_connection: json.loads raises on
\* text that is not JSON; with a non-empty token, .get raises on JSON that
\* is not an object and a token that differs (or is missing) is refused;
\* with an empty token the frame is not looked at
AuthOutcome(token, frame) ==
    IF frame.kind = "text" THEN "raise"
    ELSE IF token = EmptyToken THEN "accept"
    ELSE IF frame.kind # "object" THEN "raise"
    ELSE IF frame.token # token THEN "reject"
    ELSE "accept"

(***************************************************************************)
(* Init                                                                    *)
(***************************************************************************)
ServerInit ==
    /\ REQUEST_RESULTS = <<>>
    /\ REQUEST_INFLIGHT = <<>>
    /\ REQUEST_ORDER = <<>>
    /\ spc = [c \in Conns |-> "new"]
    /\ cur = [c \in Conns |-> NoMsg]
    /\ curResp = [c \in Conns |-> NoResp]
    /\ curExec = [c \in Conns |-> 0]
    /\ execCount = 0
    /\ dispatched = [r \in RequestIds |-> 0]
    /\ evicted = [r \in RequestIds |-> 0]
    /\ firstHash = [r \in RequestIds |-> NoHash]
    /\ firstResp = [r \in RequestIds |-> NoResp]
    /\ wire = NoSent
    /\ auth_token \in {EmptyToken, 1}
    /\ handshake = NoHandshake
    /\ stop_event = FALSE
    /\ received = NoReceived

(***************************************************************************)
(* remote_server.py: handle_connection, one action per atomic segment.     *)
(* Conns are the handlers running concurrently, each serving one           *)
(* connection: "new" at the recv of the first frame, then "idle" at its    *)
(* "async for message in websocket"; a handler that ends is replaced by    *)
(* the handler of the next connection, which is "new" again.               *)
(* A transport fault shows in the handler as websocket.send raising        *)
(* ConnectionClosed.                                                       *)
(***************************************************************************)

\* a frame a client sent on connection c (a first send, or a resend of an
\* envelope after a transport fault) as the "async for" delivers it
Message(type, rid, cmd) == [type |-> type, request_id |-> rid, command |-> cmd]

Envelope(rid, cmd) == Message("exec", rid, cmd)

\* "await websocket.send(...)": the frame is sent (sendOk) and the loop goes
\* on to the next message; or send raises, the outer "except Exception"
\* sends again, that raises too and the handler ends through
\* "except ConnectionClosed / finally".  The locals of the iteration die;
\* after a handler has ended its slot serves the next accepted connection.
\* With stay FALSE the frame sent is the answer to a close or a shutdown:
\* "if should_break: break" ends the handler after it.
ReplyThen(c, sendOk, stay, frame) ==
    /\ wire' = IF sendOk THEN frame ELSE NoSent
    /\ handshake' = NoHandshake
    /\ spc' = [spc EXCEPT ![c] = IF sendOk /\ stay THEN "idle" ELSE "new"]
    /\ cur' = [cur EXCEPT ![c] = NoMsg]
    /\ curResp' = [curResp EXCEPT ![c] = NoResp]
    /\ curExec' = [curExec EXCEPT ![c] = 0]

ReplyOrEnd(c, sendOk, frame) == ReplyThen(c, sendOk, TRUE, frame)

NoteFirstHash(rid, hash) ==
    firstHash' = IF firstHash[rid] = NoHash
                 THEN [firstHash EXCEPT ![rid] = hash] ELSE firstHash

SamePayload(rid, hash) == firstHash[rid] = NoHash \/ firstHash[rid] = hash

\* the authentication block: the first frame is read and answered.  An
\* accepted connection goes on to the message loop; a refused one gets the
\* error frame and the handler returns; an exception (also a send that
\* raises) ends the handler with nothing sent.  Nothing but the frame and
\* the token is read, so the two awaits are taken in one step.  Once the
\* stop event is set main leaves websockets.serve: no connection is
\* accepted after that.
Authenticate(c, frame, sendOk) ==
    /\ spc[c] = "new"
    /\ ~stop_event
    /\ LET outcome == AuthOutcome(auth_token, frame) IN
       /\ wire' = IF ~sendOk \/ outcome = "raise" THEN NoSent
                  ELSE IF outcome = "reject" THEN AuthFrame("error", AuthFailedMsg)
                  ELSE AuthFrame("authenticated", AuthOkMsg)
       /\ spc' = [spc EXCEPT ![c] = IF outcome = "accept" /\ sendOk
                                    THEN "idle" ELSE "new"]
    /\ handshake' = [conn |-> c, frame |-> frame, sendOk |-> sendOk]
    /\ received' = NoReceived
    /\ UNCHANGED <<REQUEST_RESULTS, REQUEST_INFLIGHT, REQUEST_ORDER, cur,
                   curResp, curExec, execCount, dispatched, evicted,
                   firstHash, firstResp>>
    /\ UNCHANGED <<auth_token, stop_event, clientVars, managerVars,
                   serviceVars>>

\* fast path: no request_id; the handler runs and the response, or the
\* error frame of the outer "except Exception" when it raised, is sent.
\* The fast path reads and writes nothing of the idempotency state, so its
\* two awaits are taken in one step.
RecvFast(c, outcome, sendOk) ==
    /\ spc[c] = "idle"
    /\ ReplyOrEnd(c, sendOk,
                  Sent(HandlerResponse(Envelope(NoRid, "A"), outcome, 0),
                       "fast", TRUE, 0))
    /\ received' = Received(c, "exec", "fast")
    /\ UNCHANGED <<REQUEST_RESULTS, REQUEST_INFLIGHT, REQUEST_ORDER,
                   execCount, dispatched, evicted, firstHash, firstResp>>
    /\ UNCHANGED <<auth_token, stop_event, clientVars, managerVars,
                   serviceVars>>

\* fast path for ping, close, shutdown and an unknown type: the branch of
\* _dispatch_message awaits nothing, the answer is sent and the loop ends
\* when should_break is set
RecvFastControl(c, type, sendOk) ==
    /\ spc[c] = "idle"
    /\ ReplyThen(c, sendOk, ~ShouldBreak(type),
                 Sent(ControlResponse(Message(type, NoRid, "")), "fast", TRUE, 0))
    /\ stop_event' = StopEventAfter(stop_event, type)
    /\ received' = Received(c, type, "fast")
    /\ UNCHANGED <<REQUEST_RESULTS, REQUEST_INFLIGHT, REQUEST_ORDER,
                   execCount, dispatched, evicted, firstHash, firstResp>>
    /\ UNCHANGED <<auth_token, clientVars, managerVars, serviceVars>>

\* 1) done cache: whatever the type of the message, the reuse error or the
\* cached response is sent and the loop goes on ("continue")
RecvCachedMessage(c, data, sendOk) ==
    /\ spc[c] = "idle"
    /\ LET rid == data.request_id
           hash == PayloadHash(data)
       IN /\ Lookup(REQUEST_RESULTS, REQUEST_INFLIGHT, rid) = "cached"
          /\ NoteFirstHash(rid, hash)
          /\ ReplyOrEnd(c, sendOk,
                        Sent(CachedAnswer(REQUEST_RESULTS[rid], rid, hash),
                             "cached", SamePayload(rid, hash), 0))
    /\ received' = Received(c, data.type, "cached")
    /\ UNCHANGED <<REQUEST_RESULTS, REQUEST_INFLIGHT, REQUEST_ORDER,
                   execCount, dispatched, evicted, firstResp>>
    /\ UNCHANGED <<auth_token, stop_event, clientVars, managerVars,
                   serviceVars>>

RecvCached(c, rid, cmd, sendOk) == RecvCachedMessage(c, Envelope(rid, cmd), sendOk)

RecvCachedControl(c, type, rid, sendOk) ==
    RecvCachedMessage(c, Message(type, rid, ""), sendOk)

\* fut.done(): set_result ran, the creator of the future is sending
FutureDone(owner) == spc[owner] \in {"send", "sendErr"}

\* 2) in-flight dedupe: "response = await in_flight".  A future that is
\* already done (its creator is still sending) returns at once.
RecvJoinMessage(c, data) ==
    /\ spc[c] = "idle"
    /\ LET rid == data.request_id
           owner == REQUEST_INFLIGHT[rid]
       IN /\ Lookup(REQUEST_RESULTS, REQUEST_INFLIGHT, rid) = "inflight"
          /\ cur' = [cur EXCEPT ![c] = data]
          /\ curExec' = [curExec EXCEPT ![c] = curExec[owner]]
          /\ curResp' = [curResp EXCEPT ![c] =
                           IF FutureDone(owner) THEN curResp[owner] ELSE NoResp]
          /\ NoteFirstHash(rid, PayloadHash(data))
          /\ spc' = [spc EXCEPT ![c] =
                       IF FutureDone(owner) THEN "joinReady" ELSE "join"]
    /\ wire' = NoSent
    /\ handshake' = NoHandshake
    /\ received' = Received(c, data.type, "join")
    /\ UNCHANGED <<REQUEST_RESULTS, REQUEST_INFLIGHT, REQUEST_ORDER,
                   execCount, dispatched, evicted, firstResp>>
    /\ UNCHANGED <<auth_token, stop_event, clientVars, managerVars,
                   serviceVars>>

RecvJoin(c, rid, cmd) == RecvJoinMessage(c, Envelope(rid, cmd))

RecvJoinControl(c, type, rid) == RecvJoinMessage(c, Message(type, rid, ""))

\* the joiner resumes with the future's result and sends it
JoinWake(c, sendOk) ==
    /\ spc[c] = "joinReady"
    /\ ReplyOrEnd(c, sendOk,
                  Sent(curResp[c], "join",
                       SamePayload(cur[c].request_id, PayloadHash(cur[c])),
                       curExec[c]))
    /\ received' = NoReceived
    /\ UNCHANGED <<REQUEST_RESULTS, REQUEST_INFLIGHT, REQUEST_ORDER,
                   execCount, dispatched, evicted, firstHash, firstResp>>
    /\ UNCHANGED <<auth_token, stop_event, clientVars, managerVars,
                   serviceVars>>

\* 3) execute: register the in-flight future and call the handler
RecvExecute(c, rid, cmd) ==
    /\ spc[c] = "idle"
    /\ execCount < MaxExec
    /\ LET data == Envelope(rid, cmd)
       IN /\ Lookup(REQUEST_RESULTS, REQUEST_INFLIGHT, rid) = "execute"
          /\ cur' = [cur EXCEPT ![c] = data]
          /\ REQUEST_INFLIGHT' =
                [k \in (DOMAIN REQUEST_INFLIGHT) \cup {rid} |->
                    IF k = rid THEN c ELSE REQUEST_INFLIGHT[k]]
          /\ execCount' = execCount + 1
          /\ curExec' = [curExec EXCEPT ![c] = execCount + 1]
          /\ dispatched' = Bump(dispatched, rid)
          /\ NoteFirstHash(rid, PayloadHash(data))
          /\ spc' = [spc EXCEPT ![c] = "dispatch"]
    /\ wire' = NoSent
    /\ handshake' = NoHandshake
    /\ received' = Received(c, "exec", "execute")
    /\ UNCHANGED <<REQUEST_RESULTS, REQUEST_ORDER, curResp, evicted,
                   firstResp>>
    /\ UNCHANGED <<auth_token, stop_event, clientVars, managerVars,
                   serviceVars>>

\* fut.set_result(response): every handler awaiting the future of rid is
\* scheduled to resume with the response
SetResult(rid, resp, c) ==
    /\ spc' = [k \in Conns |->
                 IF k = c THEN (IF resp.type = "result" THEN "send" ELSE "sendErr")
                 ELSE IF spc[k] = "join" /\ cur[k].request_id = rid THEN "joinReady"
                 ELSE spc[k]]
    /\ curResp' = [k \in Conns |->
                     IF k = c \/ (spc[k] = "join" /\ cur[k].request_id = rid)
                     THEN resp ELSE curResp[k]]

\* the handler returns or raises: the response (or err_resp) is cached and
\* the future resolved, then the handler awaits websocket.send
DispatchFinish(c, outcome) ==
    /\ spc[c] = "dispatch"
    /\ LET rid == cur[c].request_id
           resp == HandlerResponse(cur[c], outcome, curExec[c])
           cached == CacheResponse(REQUEST_RESULTS, REQUEST_ORDER, rid,
                                   PayloadHash(cur[c]), resp)
       IN /\ REQUEST_RESULTS' = cached.results
          /\ REQUEST_ORDER' = cached.order
          /\ evicted' = BumpAll(evicted, cached.gone)
          /\ SetResult(rid, resp, c)
          /\ firstResp' = IF firstResp[rid] = NoResp
                          THEN [firstResp EXCEPT ![rid] = resp] ELSE firstResp
    /\ wire' = NoSent
    /\ handshake' = NoHandshake
    /\ received' = NoReceived
    /\ UNCHANGED <<REQUEST_INFLIGHT, cur, curExec, execCount,
                   dispatched, firstHash>>
    /\ UNCHANGED <<auth_token, stop_event, clientVars, managerVars,
                   serviceVars>>

RECURSIVE SumOver(_, _)
SumOver(f, S) ==
    IF S = {} THEN 0
    ELSE LET k == CHOOSE x \in S : TRUE IN f[k] + SumOver(f, S \ {k})

\* 3) execute, for ping, close, shutdown and an unknown type: the branch of
\* _dispatch_message awaits nothing, so the in-flight future is registered,
\* the response built and cached and the future resolved without a pause;
\* the handler then awaits websocket.send
RecvControl(c, type, rid) ==
    /\ spc[c] = "idle"
    /\ SumOver(dispatched, RequestIds) < MaxControl
    /\ LET data == Message(type, rid, "")
           resp == ControlResponse(data)
           cached == CacheResponse(REQUEST_RESULTS, REQUEST_ORDER, rid,
                                   PayloadHash(data), resp)
       IN /\ Lookup(REQUEST_RESULTS, REQUEST_INFLIGHT, rid) = "execute"
          /\ cur' = [cur EXCEPT ![c] = data]
          /\ REQUEST_INFLIGHT' =
                [k \in (DOMAIN REQUEST_INFLIGHT) \cup {rid} |->
                    IF k = rid THEN c ELSE REQUEST_INFLIGHT[k]]
          /\ REQUEST_RESULTS' = cached.results
          /\ REQUEST_ORDER' = cached.order
          /\ evicted' = BumpAll(evicted, cached.gone)
          /\ dispatched' = Bump(dispatched, rid)
          /\ NoteFirstHash(rid, PayloadHash(data))
          /\ firstResp' = IF firstResp[rid] = NoResp
                          THEN [firstResp EXCEPT ![rid] = resp] ELSE firstResp
          /\ curResp' = [curResp EXCEPT ![c] = resp]
          /\ spc' = [spc EXCEPT ![c] = "send"]
    /\ stop_event' = StopEventAfter(stop_event, type)
    /\ wire' = NoSent
    /\ handshake' = NoHandshake
    /\ received' = Received(c, type, "execute")
    /\ UNCHANGED <<curExec, execCount>>
    /\ UNCHANGED <<auth_token, clientVars, managerVars, serviceVars>>

PopInflight(inflight, rid) == [k \in (DOMAIN inflight) \ {rid} |-> inflight[k]]

\* what the "except Exception" clause of the execute branch caches when the
\* send of the response raised: err_resp under the same request_id
SendFailureCache(results, order, rid, hash) ==
    CacheResponse(results, order, rid, hash, SendErrResp(rid))

\* "await websocket.send(json.dumps(response))" of the try block.  When it
\* raises, "except Exception" caches err_resp under the same request_id and
\* tries to send it, which raises again; "finally" pops the in-flight entry
\* and the handler ends.  After the answer to a close or a shutdown was
\* sent, "if should_break: break" ends the handler.
SendResponse(c, sendOk) ==
    /\ spc[c] = "send"
    /\ LET rid == cur[c].request_id
           cached == SendFailureCache(REQUEST_RESULTS, REQUEST_ORDER, rid,
                                      PayloadHash(cur[c]))
       IN IF sendOk
          THEN UNCHANGED <<REQUEST_RESULTS, REQUEST_ORDER, evicted>>
          ELSE /\ REQUEST_RESULTS' = cached.results
               /\ REQUEST_ORDER' = cached.order
               /\ evicted' = BumpAll(evicted, cached.gone)
    /\ ReplyThen(c, sendOk, ~ShouldBreak(cur[c].type),
                 Sent(curResp[c], "dispatch",
                      SamePayload(cur[c].request_id, PayloadHash(cur[c])),
                      curExec[c]))
    /\ REQUEST_INFLIGHT' = PopInflight(REQUEST_INFLIGHT, cur[c].request_id)
    /\ received' = NoReceived
    /\ UNCHANGED <<execCount, dispatched, firstHash, firstResp>>
    /\ UNCHANGED <<auth_token, stop_event, clientVars, managerVars,
                   serviceVars>>

\* "await websocket.send(json.dumps(err_resp))" of the except block, after
\* the handler raised
SendErrResponse(c, sendOk) ==
    /\ spc[c] = "sendErr"
    /\ ReplyOrEnd(c, sendOk,
                  Sent(curResp[c], "dispatch",
                       SamePayload(cur[c].request_id, PayloadHash(cur[c])),
                       curExec[c]))
    /\ REQUEST_INFLIGHT' = PopInflight(REQUEST_INFLIGHT, cur[c].request_id)
    /\ received' = NoReceived
    /\ UNCHANGED <<REQUEST_RESULTS, REQUEST_ORDER, execCount,
                   dispatched, evicted, firstHash, firstResp>>
    /\ UNCHANGED <<auth_token, stop_event, clientVars, managerVars,
                   serviceVars>>

\* the task of the handler of connection c is cancelled at the await it is
\* suspended in: CancelledError is no Exception, so neither "except
\* Exception" clause runs; inside the execute branch "finally" pops the
\* in-flight entry, and the handler ends
HandlerCancelled(c) ==
    /\ spc[c] # "new"
    /\ REQUEST_INFLIGHT' =
          IF spc[c] \in {"dispatch", "send", "sendErr"}
          THEN PopInflight(REQUEST_INFLIGHT, cur[c].request_id)
          ELSE REQUEST_INFLIGHT
    /\ spc' = [spc EXCEPT ![c] = "new"]
    /\ cur' = [cur EXCEPT ![c] = NoMsg]
    /\ curResp' = [curResp EXCEPT ![c] = NoResp]
    /\ curExec' = [curExec EXCEPT ![c] = 0]
    /\ wire' = NoSent
    /\ handshake' = NoHandshake
    /\ received' = NoReceived
    /\ UNCHANGED <<REQUEST_RESULTS, REQUEST_ORDER, execCount,
                   dispatched, evicted, firstHash, firstResp>>
    /\ UNCHANGED <<auth_token, stop_event, clientVars, managerVars,
                   serviceVars>>


ServerNext ==
    \/ \E c \in Conns, f \in FirstFrames, ok \in BOOLEAN : Authenticate(c, f, ok)
    \/ \E c \in Conns, o \in {"ok", "raise"}, ok \in BOOLEAN : RecvFast(c, o, ok)
    \/ \E c \in Conns, rid \in RequestIds, cmd \in Commands, ok \in BOOLEAN :
          RecvCached(c, rid, cmd, ok)
    \/ \E c \in Conns, rid \in RequestIds, cmd \in Commands : RecvJoin(c, rid, cmd)
    \/ \E c \in Conns, ok \in BOOLEAN : JoinWake(c, ok)
    \/ \E c \in Conns, rid \in RequestIds, cmd \in Commands : RecvExecute(c, rid, cmd)
    \/ \E c \in Conns, o \in {"ok", "raise"} : DispatchFinish(c, o)
    \/ \E c \in Conns, ok \in BOOLEAN : SendResponse(c, ok)
    \/ \E c \in Conns, ok \in BOOLEAN : SendErrResponse(c, ok)

\* the message loop of a server whose handler tasks can be cancelled; exec
\* messages carry one command here
CancelNext ==
    \/ \E c \in Conns, ok \in BOOLEAN :
          Authenticate(c, [kind |-> "object", token |-> auth_token], ok)
    \/ \E c \in Conns, rid \in RequestIds, ok \in BOOLEAN :
          RecvCached(c, rid, "A", ok)
    \/ \E c \in Conns, rid \in RequestIds : RecvJoin(c, rid, "A")
    \/ \E c \in Conns, ok \in BOOLEAN : JoinWake(c, ok)
    \/ \E c \in Conns, rid \in RequestIds : RecvExecute(c, rid, "A")
    \/ \E c \in Conns, o \in {"ok", "raise"} : DispatchFinish(c, o)
    \/ \E c \in Conns, ok \in BOOLEAN : SendResponse(c, ok)
    \/ \E c \in Conns, ok \in BOOLEAN : SendErrResponse(c, ok)
    \/ \E c \in Conns : HandlerCancelled(c)

\* the message loop with the control messages next to exec; exec messages
\* carry one command here
ControlNext ==
    \/ \E c \in Conns, ok \in BOOLEAN :
          Authenticate(c, [kind |-> "object", token |-> auth_token], ok)
    \/ \E c \in Conns, o \in {"ok", "raise"}, ok \in BOOLEAN : RecvFast(c, o, ok)
    \/ \E c \in Conns, type \in ControlTypes, ok \in BOOLEAN :
          RecvFastControl(c, type, ok)
    \/ \E c \in Conns, rid \in RequestIds, ok \in BOOLEAN :
          RecvCached(c, rid, "A", ok)
    \/ \E c \in Conns, type \in ControlTypes, rid \in RequestIds, ok \in BOOLEAN :
          RecvCachedControl(c, type, rid, ok)
    \/ \E c \in Conns, rid \in RequestIds : RecvJoin(c, rid, "A")
    \/ \E c \in Conns, type \in ControlTypes, rid \in RequestIds :
          RecvJoinControl(c, type, rid)
    \/ \E c \in Conns, ok \in BOOLEAN : JoinWake(c, ok)
    \/ \E c \in Conns, rid \in RequestIds :
          SumOver(dispatched, RequestIds) < MaxControl /\ RecvExecute(c, rid, "A")
    \/ \E c \in Conns, o \in {"ok", "raise"} : DispatchFinish(c, o)
    \/ \E c \in Conns, ok \in BOOLEAN : SendResponse(c, ok)
    \/ \E c \in Conns, ok \in BOOLEAN : SendErrResponse(c, ok)
    \/ \E c \in Conns, type \in ControlTypes, rid \in RequestIds :
          RecvControl(c, type, rid)


(***************************************************************************)
(* connection.py: RemoteHost                                               *)
(*                                                                         *)
(* One RemoteHost object used by NumCallers coroutines.  A caller that is  *)
(* idle starts _rpc, setup or teardown; inside a call it advances from one *)
(* await to the next.  The peer (tunnel, deploy script, remote server) is  *)
(* the environment: each awaited step succeeds or fails, a sent request    *)
(* is answered or not, and an open connection can be lost at any time.     *)
(***************************************************************************)

\* None: no session id minted yet / no websocket object
NoSession == 0
NoWs == 0
\* range(2) of the retry loop of _rpc
RpcAttempts == 2

Callers == 1..NumCallers

ErrTunnel == "Network unreachable: SSH tunnel failed"
ErrWebSocket == "Remote server not responding: WebSocket failed"
ErrRecovery == "Transport recovery failed"
ErrCannotConnect == "Cannot connect to remote host"
ErrSetupFailed == "Cannot connect to remote host: setup failed"
ErrConnectionLost == "Connection lost and auto-reconnect failed"
ErrMismatched == "Mismatched request_id in response"
ErrTimedOut == "Command timed out"
ErrRetryExhausted == "RPC retry exhausted"
ErrUnexpectedType == "Unexpected response type"
\* the "message" of an error frame of the server
RemoteErrMsg == "remote error"

\* no response frame
NoFrame == [ws |-> NoWs, rid |-> NoRid, type |-> "none"]

\* the dict a call returns: "data" is the response frame whose payload is
\* handed to the caller (NoFrame: the dict is built by _rpc itself)
Ok(frame) ==
    [success |-> TRUE, error |-> "", data |-> frame, raised |-> FALSE]
Err(msg) ==
    [success |-> FALSE, error |-> msg, data |-> NoFrame, raised |-> FALSE]
\* the call does not return: exception exc propagates to the caller
Raise(exc) ==
    [success |-> FALSE, error |-> exc, data |-> NoFrame, raised |-> TRUE]

NoReturn == [caller |-> 0, op |-> "none", value |-> Err("")]

\* RemoteHost.__init__
NewRemoteHost ==
    [session_id |-> NoSession, tunnel_process |-> FALSE, websocket |-> NoWs,
     running |-> FALSE, authenticated |-> FALSE, last_recovery_error |-> ""]

\* a caller outside any call
IdleCall ==
    [pc |-> "idle", op |-> "none", ret |-> "caller", rid |-> NoRid,
     attempt |-> 0, ws |-> NoWs, sent |-> <<>>, recovs |-> 0,
     deploy |-> "none", steps |-> <<>>, failed |-> FALSE, acked |-> FALSE]


ClientInit ==
    /\ host = NewRemoteHost
    /\ call = [t \in Callers |-> IdleCall]
    /\ wsOpen = {}
    /\ sentReqs = <<>>
    /\ respQ = <<>>
    /\ calls = 0
    /\ minted = 0
    /\ wsCount = 0
    /\ returned = NoReturn

\* the test at the top of _ensure_transport_ready
TransportReady(h) == h.running /\ h.authenticated /\ h.websocket # NoWs

\* _ensure_transport_ready without its test of session_id: a handle whose
\* transport is down is set up again (what C5 excludes)
EnsureTransportReadyAlwaysSetup(h) ==
    IF TransportReady(h) THEN "ready" ELSE "setup"

\* _ensure_transport_ready: which of its three branches is taken
EnsureTransportReady(h) ==
    IF TransportReady(h) THEN "ready"
    ELSE IF h.session_id = NoSession THEN "setup"
    ELSE "recover"

\* a _mark_transport_down that also forgets the session (what C6 excludes)
MarkTransportDownForgetSession(h) ==
    [h EXCEPT !.running = FALSE, !.authenticated = FALSE,
              !.websocket = NoWs, !.tunnel_process = FALSE,
              !.session_id = NoSession]

\* _mark_transport_down: flags off, websocket closed and forgotten, tunnel
\* closed and forgotten; session_id is not touched
MarkTransportDown(h) ==
    [h EXCEPT !.running = FALSE, !.authenticated = FALSE,
              !.websocket = NoWs, !.tunnel_process = FALSE]

\* _is_transport_error on the exception classes send and recv raise
IsTransportError(exc) ==
    exc \in {"ConnectionClosed", "OSError", "ConnectionError", "RuntimeError"}

\* the same test without 'attempt == 0' (what C7 excludes)
MayRecoverOnAnyAttempt(attempt, exc) == IsTransportError(exc)

\* the test of the except branch of _rpc that starts a recovery
MayRecover(attempt, exc) == attempt = 0 /\ IsTransportError(exc)

\* frames of a closed connection are never delivered
DropWs(q, ws) == SelectSeq(q, LAMBDA e : e.ws # ws)

\* a websocket object is closed (by the client or by the network)
CloseWs(ws) ==
    /\ wsOpen' = wsOpen \ {ws}
    /\ sentReqs' = DropWs(sentReqs, ws)
    /\ respQ' = DropWs(respQ, ws)

\* the call op (_rpc, setup or teardown) of caller t ends with r
RpcReturn(t, h, op, r) ==
    /\ host' = h
    /\ call' = [call EXCEPT ![t] = IdleCall]
    /\ returned' = [caller |-> t, op |-> op, value |-> r]

\* _recover_transport up to its first await that can fail: clear the
\* recorded error, mark the transport down, start a new tunnel
RecoverStart(t, h, c) ==
    /\ host' = [MarkTransportDown(h) EXCEPT !.last_recovery_error = ""]
    /\ CloseWs(h.websocket)
    /\ call' = [call EXCEPT ![t] = [c EXCEPT !.pc = "recTunnel", !.ws = NoWs]]
    /\ returned' = NoReturn

\* the except branch of the retry loop: a transport error on the first
\* attempt runs _recover_transport; any other exception ends the call
RpcException(t, h, c, exc) ==
    IF MayRecover(c.attempt, exc)
    THEN RecoverStart(t, h, [c EXCEPT !.ret = "retry", !.recovs = @ + 1])
    ELSE /\ RpcReturn(t, h, c.op, Err(exc))
         /\ UNCHANGED <<wsOpen, sentReqs, respQ>>

\* one pass of the retry loop up to the await of recv: send the message on
\* self.websocket; a send on a closed connection raises ConnectionClosed,
\* a send on None raises AttributeError
SendRequest(t, h, c) ==
    LET c2 == [c EXCEPT !.sent = Append(@, c.rid)] IN
    IF h.websocket \in wsOpen
    THEN /\ host' = h
         /\ call' = [call EXCEPT ![t] = [c2 EXCEPT !.pc = "recv",
                                                   !.ws = h.websocket]]
         /\ sentReqs' = Append(sentReqs, [ws |-> h.websocket, rid |-> c.rid])
         /\ returned' = NoReturn
         /\ UNCHANGED <<wsOpen, respQ>>
    ELSE RpcException(t, h, c2,
             IF h.websocket = NoWs THEN "AttributeError"
                                   ELSE "ConnectionClosed")

\* setup up to its first await: return at once when already running,
\* otherwise mint a session id and start the tunnel
SetupStart(t, h, c) ==
    IF h.running
    THEN /\ UNCHANGED minted
         /\ IF c.ret = "ensure"
            THEN SendRequest(t, h, c)
            ELSE /\ RpcReturn(t, h, c.op, Ok(NoFrame))
                 /\ UNCHANGED <<wsOpen, sentReqs, respQ>>
    ELSE /\ minted < MaxSessions
         /\ minted' = minted + 1
         /\ host' = [h EXCEPT !.session_id = minted + 1]
         /\ call' = [call EXCEPT ![t] = [c EXCEPT !.pc = "setupTunnel"]]
         /\ returned' = NoReturn
         /\ UNCHANGED <<wsOpen, sentReqs, respQ>>

\* _rpc from its first line to its first await
RpcCall(t) ==
    /\ call[t].pc = "idle"
    /\ calls < MaxCalls
    /\ calls' = calls + 1
    /\ UNCHANGED wsCount
    /\ LET c == [IdleCall EXCEPT !.op = "rpc", !.ret = "ensure",
                                 !.rid = calls + 1]
           branch == EnsureTransportReady(host)
       IN  CASE branch = "ready" -> SendRequest(t, host, c) /\ UNCHANGED minted
             [] branch = "setup" -> SetupStart(t, host, c)
             [] branch = "recover" -> RecoverStart(t, host, c) /\ UNCHANGED minted
    /\ UNCHANGED <<serverVars, managerVars, serviceVars>>

\* a caller enters setup() directly (__aenter__, HostManager)
SetupCall(t) ==
    /\ call[t].pc = "idle"
    /\ calls < MaxCalls
    /\ calls' = calls + 1
    /\ UNCHANGED wsCount
    /\ SetupStart(t, host, [IdleCall EXCEPT !.op = "setup"])
    /\ UNCHANGED <<serverVars, managerVars, serviceVars>>

\* teardown up to its first await: both flags are cleared
TeardownBegin(h) == [h EXCEPT !.running = FALSE, !.authenticated = FALSE]

\* a failed setup whose ConnectionError _rpc lets through (what C21
\* excludes)
SetupFailureUncaught(ret) == Raise("ConnectionError")

\* how a failed setup ends: setup raises ConnectionError; when it was
\* called from _ensure_transport_ready, _rpc catches the exception and
\* returns an error dict
SetupFailure(ret) ==
    IF ret = "ensure" THEN Err(ErrSetupFailed) ELSE Raise("ConnectionError")

\* the awaited steps of teardown, in the order of its code
TeardownSteps == <<"shutdown", "force_stop", "remove_dir", "close_tunnel">>

TeardownStages == {TeardownSteps[i] : i \in DOMAIN TeardownSteps}

\* step 4: _close_ssh_tunnel waits for the tunnel process when the handle
\* holds one; without one it returns at once and teardown is over
TeardownAfterRemoveDir(h) ==
    IF h.tunnel_process THEN "close_tunnel" ELSE "return"

\* step 3: 'if self.session_id' the session directory is removed over ssh
TeardownAfterForceStop(h) ==
    IF h.session_id # NoSession THEN "remove_dir"
    ELSE TeardownAfterRemoveDir(h)

\* step 2: 'if not server_stopped' _force_stop_host runs, which returns at
\* once without a session_id and otherwise waits for its ssh commands
TeardownAfterShutdown(h, server_stopped) ==
    IF ~server_stopped /\ h.session_id # NoSession THEN "force_stop"
    ELSE TeardownAfterForceStop(h)

\* step 1: with a websocket, _request_shutdown sends the shutdown message
\* and waits for its answer; without one it returns False at once
TeardownFirst(h) ==
    IF h.websocket # NoWs THEN "shutdown"
    ELSE TeardownAfterShutdown(h, FALSE)

\* teardown of caller t goes on to stage (its next await) with the handle
\* as h, or is over: teardown returns None; after a failed setup
\* ConnectionError is raised then, which _rpc turns into an error result
TeardownGoto(t, h, c, stage) ==
    IF stage = "return"
    THEN RpcReturn(t, h, c.op,
                   IF c.op = "teardown" THEN Ok(NoFrame)
                   ELSE SetupFailure(c.ret))
    ELSE /\ host' = h
         /\ call' = [call EXCEPT ![t] = [c EXCEPT !.pc = stage,
                                                  !.steps = Append(@, stage)]]
         /\ returned' = NoReturn

\* a caller enters teardown() directly (__aexit__, HostManager)
TeardownCall(t) ==
    /\ call[t].pc = "idle"
    /\ calls < MaxCalls
    /\ calls' = calls + 1
    /\ TeardownGoto(t, TeardownBegin(host),
                    [IdleCall EXCEPT !.op = "teardown", !.ws = host.websocket],
                    TeardownFirst(host))
    /\ UNCHANGED <<wsOpen, sentReqs, respQ, minted, wsCount>>
    /\ UNCHANGED <<serverVars, managerVars, serviceVars>>

\* the except branch of setup: the remote log is fetched, then teardown
SetupFailed(t) ==
    /\ call' = [call EXCEPT ![t].pc = "setupFailed"]
    /\ returned' = NoReturn
    /\ UNCHANGED <<host, wsOpen, sentReqs, respQ>>

\* setup resumes after _create_ssh_tunnel
SetupTunnel(t, ok) ==
    /\ call[t].pc = "setupTunnel"
    /\ IF ok
       THEN /\ host' = [host EXCEPT !.tunnel_process = TRUE]
            /\ call' = [call EXCEPT ![t].pc = "setupDeploy"]
            /\ returned' = NoReturn
            /\ UNCHANGED <<wsOpen, sentReqs, respQ>>
       ELSE SetupFailed(t)
    /\ UNCHANGED <<calls, minted, wsCount>>
    /\ UNCHANGED <<serverVars, managerVars, serviceVars>>

\* how _deploy_and_start_host can end: the deploy script exits with status
\* zero or with another status (_ssh_exec logs it and returns the script's
\* output), or a step raises (a file to upload is missing, scp fails, an
\* ssh command times out)
DeployOutcomes == {"zero", "nonzero", "raise"}

\* setup resumes after _deploy_and_start_host
SetupDeploy(t, exit) ==
    /\ call[t].pc = "setupDeploy"
    /\ IF exit # "raise"
       THEN /\ call' = [call EXCEPT ![t].pc = "setupWs", ![t].deploy = exit]
            /\ returned' = NoReturn
            /\ UNCHANGED <<host, wsOpen, sentReqs, respQ>>
       ELSE SetupFailed(t)
    /\ UNCHANGED <<calls, minted, wsCount>>
    /\ UNCHANGED <<serverVars, managerVars, serviceVars>>

\* _connect_websocket succeeded: a new websocket object is stored and
\* _authenticate sends its first frame on it
ConnectWebsocket(t, pc) ==
    /\ wsCount < MaxWs
    /\ wsCount' = wsCount + 1
    /\ host' = [host EXCEPT !.websocket = wsCount + 1]
    /\ wsOpen' = wsOpen \cup {wsCount + 1}
    /\ call' = [call EXCEPT ![t].pc = pc, ![t].ws = wsCount + 1]
    /\ returned' = NoReturn
    /\ UNCHANGED <<sentReqs, respQ>>

\* setup resumes after _connect_websocket
SetupWs(t, ok) ==
    /\ call[t].pc = "setupWs"
    /\ IF ok THEN ConnectWebsocket(t, "setupAuth")
             ELSE SetupFailed(t) /\ UNCHANGED wsCount
    /\ UNCHANGED <<calls, minted>>
    /\ UNCHANGED <<serverVars, managerVars, serviceVars>>

\* setup resumes after the recv of _authenticate; on success it returns
\* to _ensure_transport_ready (and _rpc goes on to its first send) or to
\* the caller of setup
SetupAuth(t, ok) ==
    /\ call[t].pc = "setupAuth"
    /\ IF ok /\ call[t].ws \in wsOpen
       THEN LET h == [host EXCEPT !.authenticated = TRUE, !.running = TRUE]
                c == [call[t] EXCEPT !.ws = NoWs] IN
            IF c.ret = "ensure"
            THEN SendRequest(t, h, c)
            ELSE /\ RpcReturn(t, h, c.op, Ok(NoFrame))
                 /\ UNCHANGED <<wsOpen, sentReqs, respQ>>
       ELSE SetupFailed(t)
    /\ UNCHANGED <<calls, minted, wsCount>>
    /\ UNCHANGED <<serverVars, managerVars, serviceVars>>

\* teardown runs after a failed setup (the await of _get_remote_log is
\* over)
SetupTeardown(t) ==
    /\ call[t].pc = "setupFailed"
    /\ TeardownGoto(t, TeardownBegin(host),
                    [call[t] EXCEPT !.ws = host.websocket],
                    TeardownFirst(host))
    /\ UNCHANGED <<wsOpen, sentReqs, respQ, calls, minted, wsCount>>
    /\ UNCHANGED <<serverVars, managerVars, serviceVars>>

\* _request_shutdown is over: the server acknowledged the shutdown (only
\* over the connection the message was sent on, if it is still open) or it
\* did not (another frame, no frame within 5 s, send or recv raised).  Its
\* finally branch closes and forgets the websocket the handle holds at
\* that time.
TeardownShutdown(t, server_stopped) ==
    /\ call[t].pc = "shutdown"
    /\ server_stopped => call[t].ws \in wsOpen
    /\ CloseWs(host.websocket)
    /\ LET h == [host EXCEPT !.websocket = NoWs] IN
       TeardownGoto(t, h, [call[t] EXCEPT !.acked = server_stopped,
                                          !.ws = NoWs],
                    TeardownAfterShutdown(h, server_stopped))
    /\ UNCHANGED <<calls, minted, wsCount>>
    /\ UNCHANGED <<serverVars, managerVars, serviceVars>>

\* the step of teardown caller t waits in ended without (ok) or with an
\* exception, which teardown logs
TeardownStepDone(t, ok) ==
    [call[t] EXCEPT !.failed = @ \/ ~ok]

\* _force_stop_host is over (its ssh commands ran, or one of them raised)
TeardownForceStop(t, ok) ==
    /\ call[t].pc = "force_stop"
    /\ TeardownGoto(t, host, TeardownStepDone(t, ok),
                    TeardownAfterForceStop(host))
    /\ UNCHANGED <<wsOpen, sentReqs, respQ, calls, minted, wsCount>>
    /\ UNCHANGED <<serverVars, managerVars, serviceVars>>

\* the 'rm -rf /tmp/<session_id>' over ssh is over
TeardownRemoveDir(t, ok) ==
    /\ call[t].pc = "remove_dir"
    /\ TeardownGoto(t, host, TeardownStepDone(t, ok),
                    TeardownAfterRemoveDir(host))
    /\ UNCHANGED <<wsOpen, sentReqs, respQ, calls, minted, wsCount>>
    /\ UNCHANGED <<serverVars, managerVars, serviceVars>>

\* _close_ssh_tunnel is over: the tunnel process has exited (or waiting
\* for it raised) and its finally branch forgets the tunnel; session_id
\* stays
TeardownFinish(t, ok) ==
    /\ call[t].pc = "close_tunnel"
    /\ TeardownGoto(t, [host EXCEPT !.tunnel_process = FALSE],
                    TeardownStepDone(t, ok), "return")
    /\ UNCHANGED <<wsOpen, sentReqs, respQ, calls, minted, wsCount>>
    /\ UNCHANGED <<serverVars, managerVars, serviceVars>>

\* what _rpc returns after _recover_transport returned False, with the
\* one default for both places it is called from
RecoveryFailureOneDefault(h, ret) ==
    Err(IF h.last_recovery_error # "" THEN h.last_recovery_error
        ELSE ErrConnectionLost)

\* what _rpc returns after _recover_transport returned False: the recorded
\* error, or the default of the place it was called from
RecoveryFailure(h, ret) ==
    Err(IF h.last_recovery_error # "" THEN h.last_recovery_error
        ELSE IF ret = "ensure" THEN ErrCannotConnect
        ELSE ErrConnectionLost)

\* the except branches of _recover_transport up to the await inside the
\* last _mark_transport_down: the error of the failed stage is recorded
\* (the stage's own message, or ErrRecovery when nothing is recorded), the
\* flags are cleared and the websocket or the tunnel is being closed.
\* With neither to close nothing is awaited: _recover_transport returns
\* False and _rpc returns its error result in the same step.
RecoverFailed(t, msg) ==
    LET recorded == IF msg = ErrRecovery /\ host.last_recovery_error # ""
                    THEN host.last_recovery_error ELSE msg
        h == [host EXCEPT !.running = FALSE, !.authenticated = FALSE,
                          !.last_recovery_error = recorded]
    IN  IF host.websocket = NoWs /\ ~host.tunnel_process
        THEN /\ RpcReturn(t, h, call[t].op, RecoveryFailure(h, call[t].ret))
             /\ UNCHANGED <<wsOpen, sentReqs, respQ>>
        ELSE /\ host' = h
             /\ CloseWs(host.websocket)
             /\ call' = [call EXCEPT ![t].pc = "recDown",
                                     ![t].ws = host.websocket]
             /\ returned' = NoReturn

\* the last _mark_transport_down is over: the websocket it closed and the
\* tunnel are forgotten, _recover_transport returns False and _rpc returns
\* the error recorded on the handle at that time
RecoverDown(t) ==
    /\ call[t].pc = "recDown"
    /\ LET h == [host EXCEPT
                    !.websocket = IF call[t].ws # NoWs THEN NoWs ELSE @,
                    !.tunnel_process = FALSE]
       IN  RpcReturn(t, h, call[t].op, RecoveryFailure(h, call[t].ret))
    /\ UNCHANGED <<wsOpen, sentReqs, respQ, calls, minted, wsCount>>
    /\ UNCHANGED <<serverVars, managerVars, serviceVars>>

\* _recover_transport resumes after _create_ssh_tunnel
RecTunnel(t, ok) ==
    /\ call[t].pc = "recTunnel"
    /\ IF ok
       THEN /\ host' = [host EXCEPT !.tunnel_process = TRUE]
            /\ call' = [call EXCEPT ![t].pc = "recWs"]
            /\ returned' = NoReturn
            /\ UNCHANGED <<wsOpen, sentReqs, respQ>>
       ELSE RecoverFailed(t, ErrTunnel)
    /\ UNCHANGED <<calls, minted, wsCount>>
    /\ UNCHANGED <<serverVars, managerVars, serviceVars>>

\* _recover_transport resumes after _connect_websocket
RecWs(t, ok) ==
    /\ call[t].pc = "recWs"
    /\ IF ok THEN ConnectWebsocket(t, "recAuth")
             ELSE RecoverFailed(t, ErrWebSocket) /\ UNCHANGED wsCount
    /\ UNCHANGED <<calls, minted>>
    /\ UNCHANGED <<serverVars, managerVars, serviceVars>>

\* _recover_transport returned True: _ensure_transport_ready returns and
\* _rpc makes its first send, or the retry loop continues with the next
\* attempt (and ends with 'RPC retry exhausted' when there is none)
Recovered(t, h, c) ==
    IF c.ret = "ensure"
    THEN SendRequest(t, h, c)
    ELSE IF c.attempt + 1 < RpcAttempts
         THEN SendRequest(t, h, [c EXCEPT !.attempt = @ + 1])
         ELSE /\ RpcReturn(t, h, c.op, Err(ErrRetryExhausted))
              /\ UNCHANGED <<wsOpen, sentReqs, respQ>>

\* _recover_transport resumes after the recv of _authenticate
RecAuth(t, ok) ==
    /\ call[t].pc = "recAuth"
    /\ IF ok /\ call[t].ws \in wsOpen
       THEN Recovered(t, [host EXCEPT !.authenticated = TRUE, !.running = TRUE],
                      [call[t] EXCEPT !.ws = NoWs])
       ELSE RecoverFailed(t, ErrRecovery)
    /\ UNCHANGED <<calls, minted, wsCount>>
    /\ UNCHANGED <<serverVars, managerVars, serviceVars>>

\* position of the first frame of connection ws in a queue (0: none)
FirstOf(q, ws) ==
    IF \E i \in 1..Len(q) : q[i].ws = ws
    THEN CHOOSE i \in 1..Len(q) :
             q[i].ws = ws /\ \A j \in 1..(i - 1) : q[j].ws # ws
    ELSE 0

RemoveAt(q, i) == SubSeq(q, 1, i - 1) \o SubSeq(q, i + 1, Len(q))

\* the result of _rpc without the test of request_id (what C19 excludes)
RpcResultUnchecked(frame, request_id) ==
    IF frame.type = "result" THEN Ok(frame)
    ELSE IF frame.type \in {"error", "shutdown_ack"} THEN Err(RemoteErrMsg)
    ELSE IF frame.type = "pong" THEN Ok(NoFrame)
    ELSE Err(ErrUnexpectedType)

\* the result _rpc builds from the response frame it read
RpcResult(frame, request_id) ==
    IF frame.rid # NoRid /\ frame.rid # request_id THEN Err(ErrMismatched)
    ELSE IF frame.type = "result" THEN Ok(frame)
    ELSE IF frame.type \in {"error", "shutdown_ack"} THEN Err(RemoteErrMsg)
    ELSE IF frame.type = "pong" THEN Ok(NoFrame)
    ELSE Err(ErrUnexpectedType)

\* _rpc resumes after recv with a frame: whatever the frame is (result,
\* error, another request's response) the call returns.  A frame that is
\* not JSON makes json.loads raise JSONDecodeError, which is no transport
\* error: the except branch returns str(e)
RpcRecv(t) ==
    /\ call[t].pc = "recv"
    /\ call[t].ws \in wsOpen
    /\ FirstOf(respQ, call[t].ws) # 0
    /\ respQ' = RemoveAt(respQ, FirstOf(respQ, call[t].ws))
    /\ LET frame == respQ[FirstOf(respQ, call[t].ws)] IN
       RpcReturn(t, host, call[t].op,
                 IF frame.type = "malformed" THEN Err("JSONDecodeError")
                 ELSE RpcResult(frame, call[t].rid))
    /\ UNCHANGED <<wsOpen, sentReqs, calls, minted, wsCount>>
    /\ UNCHANGED <<serverVars, managerVars, serviceVars>>

\* a timeout handled as a transport error (what C20 excludes)
RpcTimeoutRecovering(t) ==
    /\ call[t].pc = "recv"
    /\ RpcException(t, host, call[t], "ConnectionError")
    /\ UNCHANGED <<calls, minted, wsCount>>
    /\ UNCHANGED <<serverVars, managerVars, serviceVars>>

\* asyncio.wait_for gives up: the call returns a timeout error and does
\* nothing else
RpcTimeout(t) ==
    /\ call[t].pc = "recv"
    /\ RpcReturn(t, host, call[t].op, Err(ErrTimedOut))
    /\ UNCHANGED <<wsOpen, sentReqs, respQ, calls, minted, wsCount>>
    /\ UNCHANGED <<serverVars, managerVars, serviceVars>>

\* recv raises ConnectionClosed: the connection was lost or the websocket
\* was closed by another caller's _mark_transport_down or teardown
RpcRecvClosed(t) ==
    /\ call[t].pc = "recv"
    /\ call[t].ws \notin wsOpen
    /\ RpcException(t, host, call[t], "ConnectionClosed")
    /\ UNCHANGED <<calls, minted, wsCount>>
    /\ UNCHANGED <<serverVars, managerVars, serviceVars>>

\* recv is called while another caller is already waiting in recv on the
\* same websocket: the websockets library may refuse the second recv with
\* a RuntimeError
RpcRecvBusy(t) ==
    /\ call[t].pc = "recv"
    /\ \E u \in Callers \ {t} : call[u].pc = "recv" /\ call[u].ws = call[t].ws
    /\ RpcException(t, host, call[t], "RuntimeError")
    /\ UNCHANGED <<calls, minted, wsCount>>
    /\ UNCHANGED <<serverVars, managerVars, serviceVars>>

\* what the peer can answer: a result, an error, a frame of a type _rpc
\* does not know, a frame that is not JSON
FrameTypes == {"result", "error", "unexpected", "malformed"}

\* the remote server answers the oldest unanswered request of a connection
\* (a frame that is not JSON carries no request_id)
ServerAnswer(ws, type) ==
    /\ FirstOf(sentReqs, ws) # 0
    /\ LET i == FirstOf(sentReqs, ws) IN
       /\ respQ' = Append(respQ,
                     [ws |-> ws,
                      rid |-> IF type = "malformed" THEN NoRid
                              ELSE sentReqs[i].rid,
                      type |-> type])
       /\ sentReqs' = RemoveAt(sentReqs, i)
    /\ returned' = NoReturn
    /\ UNCHANGED <<host, call, wsOpen, calls, minted, wsCount>>
    /\ UNCHANGED <<serverVars, managerVars, serviceVars>>

\* the network drops a connection
TransportLoss(ws) ==
    /\ ws \in wsOpen
    /\ CloseWs(ws)
    /\ returned' = NoReturn
    /\ UNCHANGED <<host, call, calls, minted, wsCount>>
    /\ UNCHANGED <<serverVars, managerVars, serviceVars>>

ClientNext ==
    \/ \E t \in Callers : RpcCall(t)
    \/ \E t \in Callers : SetupCall(t)
    \/ \E t \in Callers : TeardownCall(t)
    \/ \E t \in Callers, ok \in BOOLEAN : SetupTunnel(t, ok)
    \/ \E t \in Callers, exit \in DeployOutcomes : SetupDeploy(t, exit)
    \/ \E t \in Callers, ok \in BOOLEAN : SetupWs(t, ok)
    \/ \E t \in Callers, ok \in BOOLEAN : SetupAuth(t, ok)
    \/ \E t \in Callers : SetupTeardown(t)
    \/ \E t \in Callers, ok \in BOOLEAN : TeardownShutdown(t, ok)
    \/ \E t \in Callers, ok \in BOOLEAN : TeardownForceStop(t, ok)
    \/ \E t \in Callers, ok \in BOOLEAN : TeardownRemoveDir(t, ok)
    \/ \E t \in Callers, ok \in BOOLEAN : TeardownFinish(t, ok)
    \/ \E t \in Callers, ok \in BOOLEAN : RecTunnel(t, ok)
    \/ \E t \in Callers, ok \in BOOLEAN : RecWs(t, ok)
    \/ \E t \in Callers, ok \in BOOLEAN : RecAuth(t, ok)
    \/ \E t \in Callers : RecoverDown(t)
    \/ \E t \in Callers : RpcRecv(t)
    \/ \E t \in Callers : RpcTimeout(t)
    \/ \E t \in Callers : RpcRecvClosed(t)
    \/ \E t \in Callers : RpcRecvBusy(t)
    \/ \E ws \in 1..MaxWs, ty \in FrameTypes : ServerAnswer(ws, ty)
    \/ \E ws \in 1..MaxWs : TransportLoss(ws)

(***************************************************************************)
(* manager.py: HostManager                                                 *)
(*                                                                         *)
(* One HostManager used by NumTasks coroutines that call connect,          *)
(* get_or_connect and disconnect.  A RemoteHost handle is seen from the    *)
(* outside here: its setup, its _recover_transport, its ping and its       *)
(* teardown are awaited steps that succeed or fail.                        *)
(***************************************************************************)
Tasks == 1..NumTasks
\* the task that leaves the manager's "async with": __aexit__ awaits
\* disconnect_all, once
ExitTask == NumTasks + 1
AllTasks == Tasks \cup {ExitTask}
Names == 1..NumNames
Handles == 1..MaxHandles

\* _connections.get(name) is None
NoHandle == 0
\* the HostConfig object has no attribute active_session: config.py does
\* not declare the field, it exists only once somebody has assigned it
Absent == -1

\* the session id minted by the first setup
FirstSession == 1

\* config.local_port / config.auth_token is None
NoPort == 0
NoToken == 0
\* the ports _create_ssh_tunnel can be given by the operating system
Ports == 1..NumPorts
\* HostConfig.remote_port (default 8765)
DefaultRemotePort == 1

\* what a call of the manager gave back: nothing yet, True, False, an
\* exception, or (a number >= 1) the handle returned
RetNone == 0
RetTrue == -1
RetFalse == -2
RaisedAttributeError == -3
RaisedConnectionError == -4
RaisedKeyError == -5

\* a RemoteHost object not created yet
NoRemoteHost == [name |-> 0, session_id |-> NoSession, fresh |-> FALSE,
                 state |-> "unused"]

\* no active_session dict: its keys other than session_id
NoSnapshot == [local_port |-> NoPort, remote_port |-> 0, auth_token |-> NoToken]

IdleTask == [pc |-> "idle", op |-> "none", name |-> 0, h |-> NoHandle,
             sid |-> NoSession, what |-> "none", pinged |-> NoHandle,
             ret |-> RetNone, id |-> 0, found |-> "none", todo |-> <<>>]

\* the task record of call number id: op(n) has just been entered and has
\* read host = self._connections.get(n) (found: the state that handle is in)
NewCall(op, n, id) ==
    [IdleTask EXCEPT !.op = op, !.name = n, !.id = id,
                     !.found = IF connections[n] = NoHandle THEN "none"
                               ELSE handles[connections[n]].state]

\* HostConfig.to_dict: the entry of one host in the saved document (of the
\* fields the model carries; active_session is not among the keys written)
ToDict(c) ==
    [local_port |-> c.local_port, remote_port |-> c.remote_port,
     auth_token |-> c.auth_token]

\* HostConfig.from_dict: the object a load builds from an entry.  The
\* constructor takes the declared fields only, so the object has no
\* attribute active_session
FromDict(d) ==
    [local_port |-> d.local_port, remote_port |-> d.remote_port,
     auth_token |-> d.auth_token,
     active_session |-> Absent, session_snapshot |-> NoSnapshot]

\* HostsConfig.save: the document holds to_dict of every host
SaveAll(cfgs) == [n \in Names |-> ToDict(cfgs[n])]

\* HostsConfig.save with the hosts hs configured: the document has no
\* entry for any other name
SaveHosts(cfgs, hs) ==
    [n \in Names |-> IF n \in hs THEN ToDict(cfgs[n]) ELSE NoSnapshot]

\* _try_resume, "restore dynamic fields": a key of the persisted session
\* replaces the config field when its value is truthy
Restore(c, s) ==
    [local_port  |-> IF s.local_port # NoPort THEN s.local_port
                     ELSE c.local_port,
     remote_port |-> IF s.remote_port # 0 THEN s.remote_port
                     ELSE c.remote_port,
     auth_token  |-> IF s.auth_token # NoToken THEN s.auth_token
                     ELSE c.auth_token]

\* the manager's state as one value, so that the synchronous code between
\* two awaits can be written as a composition of functions
MState ==
    [active_session |-> active_session, connections |-> connections,
     lock |-> lock, handles |-> handles, nh |-> nh, remote |-> remote,
     sessCount |-> sessCount, mtask |-> mtask, config |-> config,
     session_snapshot |-> session_snapshot, hosts_json |-> hosts_json,
     hosts |-> hosts, over |-> FALSE]

\* the step ends in state m (no step when m needs more RemoteHost objects or
\* session ids than the bounds give)
MBecomes(m) ==
    /\ ~m.over
    /\ active_session' = m.active_session
    /\ connections' = m.connections
    /\ lock' = m.lock
    /\ handles' = m.handles
    /\ nh' = m.nh
    /\ remote' = m.remote
    /\ sessCount' = m.sessCount
    /\ mtask' = m.mtask
    /\ config' = m.config
    /\ session_snapshot' = m.session_snapshot
    /\ hosts_json' = m.hosts_json
    /\ hosts' = m.hosts

\* HostManager.__init__ with a registry of NumNames hosts.  Each HostConfig
\* either lacks the attribute active_session (as config.py builds it and as
\* a load gives it), or carries active_session = None, or carries the
\* session an earlier HostManager of this process recorded on the same
\* registry object with _save_session (FirstSession: its remote server may
\* or may not be running still, its tunnel port is in the config)
ManagerInit ==
    /\ active_session \in [Names -> {Absent, NoSession, FirstSession}]
    /\ connections = [n \in Names |-> NoHandle]
    /\ lock = [holder |-> 0, waiters |-> <<>>]
    /\ handles = [h \in Handles |-> NoRemoteHost]
    /\ nh = 0
    /\ remote \in SUBSET {active_session[n] : n \in Names} \cap
                   SUBSET {FirstSession}
    /\ sessCount = IF \E n \in Names : active_session[n] = FirstSession
                   THEN 1 ELSE 0
    /\ mtask = [k \in AllTasks |-> IdleTask]
    /\ mops = 0
    /\ config \in [Names -> [local_port : {NoPort, 1},
                             remote_port : {DefaultRemotePort},
                             auth_token : {NoToken, 1}]]
    /\ \A n \in Names : active_session[n] = FirstSession
                             => config[n].local_port # NoPort
    /\ session_snapshot = [n \in Names |->
                              IF active_session[n] = FirstSession
                              THEN ToDict(config[n]) ELSE NoSnapshot]
    /\ hosts_json = SaveAll(config)
    /\ hosts = Names

\* the call of task k returns r (or raises r); the record keeps what the
\* call was and the locals it ended with
MReturn(m, k, r) == [m EXCEPT !.mtask[k].pc = "idle", !.mtask[k].ret = r]

\* asyncio.Lock.release: the lock passes to the first waiter, if any
MRelease(m) ==
    [m EXCEPT !.lock = IF m.lock.waiters = <<>>
                       THEN [holder |-> 0, waiters |-> <<>>]
                       ELSE [holder |-> Head(m.lock.waiters),
                             waiters |-> Tail(m.lock.waiters)]]

\* RemoteHost(config) inside the lock
MNewHandle(m, n, sid, isFresh, st) ==
    IF m.nh >= MaxHandles THEN [m EXCEPT !.over = TRUE]
    ELSE [m EXCEPT !.nh = @ + 1,
                   !.handles[m.nh + 1] = [name |-> n, session_id |-> sid,
                                          fresh |-> isFresh, state |-> st]]

\* a resume that deploys: the new handle is given a new session id and goes
\* through setup (what C11 excludes)
MEnterResumeBySetup(m, k, what) ==
    LET n == m.mtask[k].name IN
    CASE what \in {"deploy", "resume"} ->
           IF m.sessCount >= MaxDeploys THEN [m EXCEPT !.over = TRUE]
           ELSE LET m1 == MNewHandle(m, n, m.sessCount + 1, TRUE, "setup") IN
                [m1 EXCEPT !.sessCount = @ + 1,
                           !.mtask[k].pc = "setup", !.mtask[k].h = m.nh + 1]
      [] what = "disc" ->
           IF m.connections[n] = NoHandle
           THEN MReturn(MRelease(m), k, RaisedKeyError)
           ELSE [m EXCEPT !.connections[n] = NoHandle,
                          !.handles[m.connections[n]].state = "teardown",
                          !.mtask[k].pc = "teardown",
                          !.mtask[k].h = m.connections[n]]

\* the body of 'async with self._lock' of task k, up to its first await:
\*   deploy : host = RemoteHost(config); host.setup() mints a session id
\*   resume : host = RemoteHost(config); host.session_id = session_id;
\*            host._recover_transport()
\*   disc   : host = self._connections.pop(name) (KeyError when the entry
\*            is gone: the lock is released and the call ends);
\*            host.teardown()
MEnter(m, k, what) ==
    LET n == m.mtask[k].name IN
    CASE what = "deploy" ->
           IF m.sessCount >= MaxDeploys THEN [m EXCEPT !.over = TRUE]
           ELSE LET m1 == MNewHandle(m, n, m.sessCount + 1, TRUE, "setup") IN
                [m1 EXCEPT !.sessCount = @ + 1,
                           !.mtask[k].pc = "setup", !.mtask[k].h = m.nh + 1]
      [] what = "resume" ->
           LET m1 == MNewHandle(m, n, m.mtask[k].sid, FALSE, "resume") IN
           [m1 EXCEPT !.mtask[k].pc = "resume", !.mtask[k].h = m.nh + 1]
      [] what = "disc" ->
           IF m.connections[n] = NoHandle
           THEN MReturn(MRelease(m), k, RaisedKeyError)
           ELSE [m EXCEPT !.connections[n] = NoHandle,
                          !.handles[m.connections[n]].state = "teardown",
                          !.mtask[k].pc = "teardown",
                          !.mtask[k].h = m.connections[n]]

\* 'async with self._lock': enter at once when the lock is free, wait in
\* the queue otherwise
MAcquire(m, k, what) ==
    IF m.lock.holder = 0
    THEN MEnter([m EXCEPT !.lock.holder = k], k, what)
    ELSE [m EXCEPT !.lock.waiters = Append(@, k),
                   !.mtask[k].pc = "wait", !.mtask[k].what = what]

\* _resume_or_deploy up to its first await.  _try_resume reads
\* config.active_session before any await: AttributeError when the
\* attribute does not exist (the call ends), None -> no resume, straight to
\* the locked fresh deploy; a recorded session -> its ports and token are
\* restored into the config and the locked resume runs with the session_id
\* read here.  (A recorded session always has a session_id: _save_session
\* runs after a successful setup only.)  For a name that remove_host has
\* taken out of the registry since the call read its config, get_host
\* gives None: no resume, the fresh deploy runs with the config read before.
MResumeOrDeploy(m, k) ==
    LET n == m.mtask[k].name
        a == m.active_session[n]
    IN  IF n \notin m.hosts THEN MAcquire(m, k, "deploy")
        ELSE IF a = Absent THEN MReturn(m, k, RaisedAttributeError)
        ELSE IF a = NoSession THEN MAcquire(m, k, "deploy")
        ELSE MAcquire([m EXCEPT !.mtask[k].sid = a,
                                !.config[n] =
                                    Restore(@, m.session_snapshot[n])],
                      k, "resume")

\* HostConfig(name=name, ssh_host=ssh_host) as add_host builds it: the
\* defaults of config.py
NewHostConfig == [local_port |-> NoPort, remote_port |-> DefaultRemotePort,
                  auth_token |-> NoToken]

\* add_host: the new HostConfig replaces the entry of that name (it has no
\* attribute active_session) and the registry is saved.  (A RemoteHost made
\* from the replaced HostConfig keeps that object; the model has one config
\* per name.)
MAddHost(m, n) ==
    LET m1 == [m EXCEPT !.hosts = @ \cup {n},
                        !.config[n] = NewHostConfig,
                        !.active_session[n] = Absent,
                        !.session_snapshot[n] = NoSnapshot]
    IN  [m1 EXCEPT !.hosts_json = SaveHosts(m1.config, m1.hosts)]

\* remove_host after its disconnect: self.config.remove_host(name);
\* self.config.save().  The HostConfig leaves the registry with the
\* session it recorded.
MRemoveHost(m, n) ==
    LET m1 == [m EXCEPT !.hosts = @ \ {n},
                        !.active_session[n] = Absent,
                        !.session_snapshot[n] = NoSnapshot]
    IN  [m1 EXCEPT !.hosts_json = SaveHosts(m1.config, m1.hosts)]

\* list(self._connections.keys()), the names taken in ascending order
RECURSIVE LiveNamesFrom(_, _)
LiveNamesFrom(conns, n) ==
    IF n > NumNames THEN <<>>
    ELSE (IF conns[n] # NoHandle THEN <<n>> ELSE <<>>)
         \o LiveNamesFrom(conns, n + 1)

LiveNames(conns) == LiveNamesFrom(conns, 1)

RECURSIVE MDisconnect(_, _)

\* the for loop of disconnect_all at the start of an iteration: the next
\* name is disconnected, or the loop is over and the call returns None
MDisconnectAll(m, k) ==
    IF m.mtask[k].todo = <<>> THEN MReturn(m, k, RetNone)
    ELSE MDisconnect([m EXCEPT !.mtask[k].name = Head(m.mtask[k].todo),
                               !.mtask[k].todo = Tail(@)], k)

\* after disconnect gave r: connect goes on to _resume_or_deploy,
\* remove_host takes the name out of the registry and returns True,
\* disconnect_all goes on to the next name, a disconnect call returns r
MAfterDisconnect(m, k, r) ==
    IF m.mtask[k].op = "connect" THEN MResumeOrDeploy(m, k)
    ELSE IF m.mtask[k].op = "remove_host"
         THEN MReturn(MRemoveHost(m, m.mtask[k].name), k, RetTrue)
    ELSE IF m.mtask[k].op = "disconnect_all" THEN MDisconnectAll(m, k)
    ELSE MReturn(m, k, r)

\* disconnect up to its first await: False when the name has no live
\* handle, otherwise the locked pop and teardown
MDisconnect(m, k) ==
    IF m.connections[m.mtask[k].name] = NoHandle
    THEN MAfterDisconnect(m, k, RetFalse)
    ELSE MAcquire(m, k, "disc")

\* _save_session: config.active_session = {session_id, local_port,
\* remote_port, auth_token}; self.config.save(); nothing for a name that
\* is not in the registry
SaveSession(m, n, sid) ==
    LET m1 == [m EXCEPT !.active_session[n] = sid,
                        !.session_snapshot[n] = ToDict(m.config[n])]
    IN  IF n \notin m.hosts THEN m
        ELSE [m1 EXCEPT !.hosts_json = SaveHosts(m1.config, m1.hosts)]

\* _clear_session that leaves the recorded session (what C16 excludes)
ClearSessionNot(m, n) == m

\* _clear_session (the attribute exists): a recorded session is replaced by
\* None and the registry saved; nothing is written when it is None already
ClearSession(m, n) ==
    IF n \notin m.hosts \/ m.active_session[n] = NoSession THEN m
    ELSE LET m1 == [m EXCEPT !.active_session[n] = NoSession,
                             !.session_snapshot[n] = NoSnapshot]
         IN  [m1 EXCEPT !.hosts_json = SaveHosts(m1.config, m1.hosts)]

\* get_or_connect that pings the registered handle first, as connect does
\* (what C14 excludes)
GetOrConnectPinging(k, n) ==
    /\ mtask[k].pc = "idle"
    /\ mops < MaxOps
    /\ mops' = mops + 1
    /\ LET m == [MState EXCEPT !.mtask[k] =
                     NewCall("get_or_connect", n, mops + 1)]
       IN  IF n \notin hosts
           THEN MBecomes(MReturn(m, k, RaisedKeyError))
           ELSE IF connections[n] # NoHandle
           THEN MBecomes([m EXCEPT !.mtask[k].pc = "ping",
                                   !.mtask[k].h = connections[n],
                                   !.mtask[k].pinged = connections[n]])
           ELSE MBecomes(MResumeOrDeploy(m, k))
    /\ UNCHANGED <<serverVars, clientVars, serviceVars>>

\* a task calls get_or_connect(n): KeyError for a name that is not in the
\* registry
GetOrConnect(k, n) ==
    /\ mtask[k].pc = "idle"
    /\ mops < MaxOps
    /\ mops' = mops + 1
    /\ LET m == [MState EXCEPT !.mtask[k] =
                     NewCall("get_or_connect", n, mops + 1)]
       IN  IF n \notin hosts
           THEN MBecomes(MReturn(m, k, RaisedKeyError))
           ELSE IF connections[n] # NoHandle
           THEN MBecomes(MReturn(m, k, connections[n]))
           ELSE MBecomes(MResumeOrDeploy(m, k))
    /\ UNCHANGED <<serverVars, clientVars, serviceVars>>

\* a task calls connect(n): KeyError for a name that is not in the
\* registry; a live handle is pinged first
Connect(k, n) ==
    /\ mtask[k].pc = "idle"
    /\ mops < MaxOps
    /\ mops' = mops + 1
    /\ LET m == [MState EXCEPT !.mtask[k] =
                     NewCall("connect", n, mops + 1)]
       IN  IF n \notin hosts
           THEN MBecomes(MReturn(m, k, RaisedKeyError))
           ELSE IF connections[n] # NoHandle
           THEN MBecomes([m EXCEPT !.mtask[k].pc = "ping",
                                   !.mtask[k].h = connections[n],
                                   !.mtask[k].pinged = connections[n]])
           ELSE MBecomes(MResumeOrDeploy(m, k))
    /\ UNCHANGED <<serverVars, clientVars, serviceVars>>

\* connect after a failed ping: disconnect(name), then _resume_or_deploy
AfterPingFailed(m, k) == MDisconnect(m, k)

\* connect resumes after host.ping().  ping is an _rpc, which recovers the
\* transport of a handle that is down; it can succeed only when the remote
\* server of the session is running.  Healthy -> return the handle,
\* otherwise disconnect and reconnect
PingDone(k, ok) ==
    /\ mtask[k].pc = "ping"
    /\ LET h == mtask[k].h IN
       IF ok
       THEN /\ handles[h].session_id \in remote
            /\ MBecomes(MReturn([MState EXCEPT
                                    !.handles[h].state = "connected"], k, h))
       ELSE MBecomes(AfterPingFailed(MState, k))
    /\ UNCHANGED mops
    /\ UNCHANGED <<serverVars, clientVars, serviceVars>>

\* a task calls disconnect(n)
Disconnect(k, n) ==
    /\ mtask[k].pc = "idle"
    /\ mops < MaxOps
    /\ mops' = mops + 1
    /\ MBecomes(MDisconnect([MState EXCEPT !.mtask[k] =
                     NewCall("disconnect", n, mops + 1)], k))
    /\ UNCHANGED <<serverVars, clientVars, serviceVars>>

\* a task calls add_host(n, ...), which awaits nothing
AddHost(k, n) ==
    /\ mtask[k].pc = "idle"
    /\ mops < MaxOps
    /\ mops' = mops + 1
    /\ MBecomes(MReturn(MAddHost([MState EXCEPT !.mtask[k] =
                     NewCall("add_host", n, mops + 1)], n), k, RetNone))
    /\ UNCHANGED <<serverVars, clientVars, serviceVars>>

\* a task calls remove_host(n): a live handle is disconnected first
RemoveHost(k, n) ==
    /\ mtask[k].pc = "idle"
    /\ mops < MaxOps
    /\ mops' = mops + 1
    /\ LET m == [MState EXCEPT !.mtask[k] = NewCall("remove_host", n, mops + 1)]
       IN  IF connections[n] # NoHandle
           THEN MBecomes(MDisconnect(m, k))
           ELSE MBecomes(MReturn(MRemoveHost(m, n), k, RetTrue))
    /\ UNCHANGED <<serverVars, clientVars, serviceVars>>

\* __aexit__ calls disconnect_all()
DisconnectAll ==
    /\ mtask[ExitTask].op = "none"
    /\ MBecomes(MDisconnectAll(
          [MState EXCEPT !.mtask[ExitTask] =
              [IdleTask EXCEPT !.op = "disconnect_all", !.id = MaxOps + 1,
                               !.todo = LiveNames(connections)]], ExitTask))
    /\ UNCHANGED mops
    /\ UNCHANGED <<serverVars, clientVars, serviceVars>>

\* a waiter is given the lock and enters its critical section
LockGranted(k) ==
    /\ mtask[k].pc = "wait"
    /\ lock.holder = k
    /\ MBecomes(MEnter(MState, k, mtask[k].what))
    /\ UNCHANGED mops
    /\ UNCHANGED <<serverVars, clientVars, serviceVars>>

\* the fresh deploy resumes after host.setup().  _create_ssh_tunnel has
\* taken a free port when config.local_port was None (port = NoPort: setup
\* failed before the tunnel).  Success: the handle is registered, the lock
\* released and _save_session records the session.  Failure: setup has
\* torn the handle down and raises ConnectionError, the lock is released
SetupDone(k, ok, port) ==
    /\ mtask[k].pc = "setup"
    /\ ok => port # NoPort
    /\ LET h == mtask[k].h
           n == mtask[k].name
           sid == handles[h].session_id
           m0 == [MState EXCEPT !.config[n].local_port =
                                    IF @ = NoPort THEN port ELSE @]
       IN  IF ok
           THEN MBecomes(MReturn(SaveSession(MRelease(
                    [m0 EXCEPT !.handles[h].state = "connected",
                               !.remote = @ \cup {sid},
                               !.connections[n] = h]), n, sid), k, h))
           ELSE MBecomes(MReturn(MRelease(
                    [m0 EXCEPT !.handles[h].state = "failed"]),
                    k, RaisedConnectionError))
    /\ UNCHANGED mops
    /\ UNCHANGED <<serverVars, clientVars, serviceVars>>

\* a _try_resume that clears the recorded session when the recovery fails
\* (what C12 excludes)
ResumeDoneClearing(k, ok) ==
    /\ mtask[k].pc = "resume"
    /\ LET h == mtask[k].h
           n == mtask[k].name
       IN  IF ok
           THEN /\ handles[h].session_id \in remote
                /\ MBecomes(MReturn(MRelease(
                       [MState EXCEPT !.handles[h].state = "connected",
                                      !.connections[n] = h]), k, h))
           ELSE MBecomes(MAcquire(MRelease(ClearSession(
                    [MState EXCEPT !.handles[h].state = "down"], n)),
                    k, "deploy"))
    /\ UNCHANGED mops
    /\ UNCHANGED <<serverVars, clientVars, serviceVars>>

\* _try_resume resumes after host._recover_transport() (which can succeed
\* only when the remote server of the session is running).  Success: the
\* handle is registered and returned.  Failure: the recorded session is
\* kept, the lock is released and taken again for the fresh deploy
ResumeDone(k, ok) ==
    /\ mtask[k].pc = "resume"
    /\ LET h == mtask[k].h
           n == mtask[k].name
       IN  IF ok
           THEN /\ handles[h].session_id \in remote
                /\ MBecomes(MReturn(MRelease(
                       [MState EXCEPT !.handles[h].state = "connected",
                                      !.connections[n] = h]), k, h))
           ELSE MBecomes(MAcquire(MRelease(
                    [MState EXCEPT !.handles[h].state = "down"]), k, "deploy"))
    /\ UNCHANGED mops
    /\ UNCHANGED <<serverVars, clientVars, serviceVars>>

\* disconnect resumes after host.teardown(), which is best effort: the
\* remote server is stopped, or (shutdown and force-stop both failed) is
\* left running.  The lock is released and _clear_session reads
\* config.active_session of a configured host (AttributeError when the
\* attribute does not exist) and sets it to None
TeardownDone(k, stopped) ==
    /\ mtask[k].pc = "teardown"
    /\ LET h == mtask[k].h
           n == mtask[k].name
           m1 == MRelease([MState EXCEPT
                              !.handles[h].state = "torn",
                              !.remote = IF stopped
                                         THEN @ \ {handles[h].session_id}
                                         ELSE @])
       IN  IF n \in hosts /\ active_session[n] = Absent
           THEN MBecomes(MReturn(m1, k, RaisedAttributeError))
           ELSE MBecomes(MAfterDisconnect(ClearSession(m1, n), k, RetTrue))
    /\ UNCHANGED mops
    /\ UNCHANGED <<serverVars, clientVars, serviceVars>>

\* the transport of a connected handle is lost (network fault, remote
\* server gone): the handle stays registered
TransportDown(h) ==
    /\ handles[h].state = "connected"
    /\ handles' = [handles EXCEPT ![h].state = "down"]
    /\ UNCHANGED <<active_session, connections, lock, nh, remote, sessCount,
                   mtask, mops, config, session_snapshot, hosts_json,
                   hosts>>
    /\ UNCHANGED <<serverVars, clientVars, serviceVars>>

ManagerNext ==
    \/ \E k \in Tasks, n \in Names : GetOrConnect(k, n)
    \/ \E k \in Tasks, n \in Names : Connect(k, n)
    \/ \E k \in Tasks, n \in Names : Disconnect(k, n)
    \/ \E k \in Tasks, ok \in BOOLEAN : PingDone(k, ok)
    \/ \E k \in Tasks : LockGranted(k)
    \/ \E k \in Tasks, ok \in BOOLEAN, port \in Ports \cup {NoPort} :
           SetupDone(k, ok, port)
    \/ \E k \in Tasks, ok \in BOOLEAN : ResumeDone(k, ok)
    \/ \E k \in Tasks, stopped \in BOOLEAN : TeardownDone(k, stopped)
    \/ \E h \in Handles : TransportDown(h)

\* the manager with remove_host and disconnect_all next to connect,
\* get_or_connect and disconnect
DisconnectNext ==
    \/ \E k \in Tasks, n \in Names : GetOrConnect(k, n)
    \/ \E k \in Tasks, n \in Names : Connect(k, n)
    \/ \E k \in Tasks, n \in Names : Disconnect(k, n)
    \/ \E k \in Tasks, ok \in BOOLEAN : PingDone(k, ok)
    \/ \E k \in AllTasks : LockGranted(k)
    \/ \E k \in Tasks, ok \in BOOLEAN, port \in Ports \cup {NoPort} :
           SetupDone(k, ok, port)
    \/ \E k \in Tasks, ok \in BOOLEAN : ResumeDone(k, ok)
    \/ \E k \in AllTasks, stopped \in BOOLEAN : TeardownDone(k, stopped)
    \/ \E h \in Handles : TransportDown(h)
    \/ \E k \in Tasks, n \in Names : RemoveHost(k, n)
    \/ DisconnectAll

\* the manager with every call that changes the registry
RegistryNext ==
    \/ \E k \in Tasks, n \in Names : GetOrConnect(k, n)
    \/ \E k \in Tasks, n \in Names : Connect(k, n)
    \/ \E k \in Tasks, n \in Names : Disconnect(k, n)
    \/ \E k \in Tasks, ok \in BOOLEAN : PingDone(k, ok)
    \/ \E k \in AllTasks : LockGranted(k)
    \/ \E k \in Tasks, ok \in BOOLEAN, port \in Ports \cup {NoPort} :
           SetupDone(k, ok, port)
    \/ \E k \in Tasks, ok \in BOOLEAN : ResumeDone(k, ok)
    \/ \E k \in AllTasks, stopped \in BOOLEAN : TeardownDone(k, stopped)
    \/ \E h \in Handles : TransportDown(h)
    \/ \E k \in Tasks, n \in Names : RemoveHost(k, n)
    \/ DisconnectAll
    \/ \E k \in Tasks, n \in Names : AddHost(k, n)

(***************************************************************************)
(* remote_server.py: FileService, with the RemoteHost calls of             *)
(* connection.py that reach it.  A text (Python str) is a sequence of code *)
(* points, a file a sequence of bytes; one path is modelled.               *)
(***************************************************************************)
CR == 13
LF == 10
\* the code points texts are made of: "a", "\n", "\r" and "é" (U+00E9)
Chars == {97, LF, CR, 233}
\* the bytes files are made of: those of the texts above, in any order, so
\* that files that are not UTF-8 occur too
FileBytes == {97, LF, CR, 195, 169}

SeqsUpTo(S, n) == UNION {[1..k -> S] : k \in 0..n}

\* the texts edit_file puts in: nothing, "a" or "é"
NewChars == {97, 233}

Texts == SeqsUpTo(Chars, MaxText)
NewTexts == SeqsUpTo(NewChars, MaxNewText)
Contents == SeqsUpTo(Chars, MaxContent)
Files == SeqsUpTo(FileBytes, MaxFile)

\* the path does not exist
NoFile == <<-1>>
\* Python's None where bytes are expected
NoContent == <<-2>>

\* str.encode("utf-8") of one code point below U+0800
Utf8Char(cp) ==
    IF cp < 128 THEN <<cp>>
    ELSE <<192 + (cp \div 64), 128 + (cp % 64)>>

\* str.encode("utf-8")
RECURSIVE Utf8Encode(_)
Utf8Encode(text) ==
    IF text = <<>> THEN <<>>
    ELSE Utf8Char(Head(text)) \o Utf8Encode(Tail(text))

IsContinuation(b) == b >= 128 /\ b < 192

\* bytes.decode("utf-8"), strict: ok is FALSE where UnicodeDecodeError is
\* raised (a continuation byte without a lead byte, a lead byte without
\* its continuation byte, the overlong leads 192 and 193)
RECURSIVE Utf8Decode(_)
Utf8Decode(bytes) ==
    IF bytes = <<>> THEN [ok |-> TRUE, text |-> <<>>]
    ELSE LET b == Head(bytes) IN
         IF b < 128
         THEN LET r == Utf8Decode(Tail(bytes))
              IN [ok |-> r.ok, text |-> <<b>> \o r.text]
         ELSE IF b >= 194 /\ b < 224 /\ Len(bytes) >= 2
                 /\ IsContinuation(bytes[2])
         THEN LET r == Utf8Decode(SubSeq(bytes, 3, Len(bytes)))
              IN [ok |-> r.ok,
                  text |-> <<(b - 192) * 64 + (bytes[2] - 128)>> \o r.text]
         ELSE [ok |-> FALSE, text |-> <<>>]

\* reading in text mode with newline=None (universal newlines): "\r\n" and
\* a lone "\r" are both read as "\n"
RECURSIVE UniversalNewlines(_)
UniversalNewlines(text) ==
    IF text = <<>> THEN <<>>
    ELSE IF Head(text) = CR
    THEN IF Len(text) >= 2 /\ text[2] = LF
         THEN <<LF>> \o UniversalNewlines(SubSeq(text, 3, Len(text)))
         ELSE <<LF>> \o UniversalNewlines(Tail(text))
    ELSE <<Head(text)>> \o UniversalNewlines(Tail(text))

\* os.linesep of the remote host (POSIX: the server needs tmux and bash)
LineSep == <<LF>>

\* writing in text mode with newline=None: "\n" is written as os.linesep
RECURSIVE WriteNewlines(_)
WriteNewlines(text) ==
    IF text = <<>> THEN <<>>
    ELSE (IF Head(text) = LF THEN LineSep ELSE <<Head(text)>>)
         \o WriteNewlines(Tail(text))

\* Path.read_text(encoding="utf-8")
ReadText(bytes) ==
    LET d == Utf8Decode(bytes)
    IN [ok |-> d.ok, text |-> UniversalNewlines(d.text)]

\* Path.write_text(text, encoding="utf-8"): the bytes of the file after it
WriteText(text) == Utf8Encode(WriteNewlines(text))

\* content[i-1:].startswith(old) for a 1-based position i
MatchesAt(content, old, i) ==
    /\ i + Len(old) - 1 <= Len(content)
    /\ SubSeq(content, i, i + Len(old) - 1) = old

\* the positions of content at which old matches
Positions(content, old) ==
    {i \in 1..(Len(content) + 1) : MatchesAt(content, old, i)}

\* "old in content"
StrContains(content, old) == Positions(content, old) # {}

\* str.count(old): the occurrences found scanning from the left, the scan
\* going on behind each occurrence found (for the empty string: behind the
\* next character), so occurrences do not overlap
RECURSIVE CountFrom(_, _, _)
CountFrom(content, old, i) ==
    IF i + Len(old) - 1 > Len(content) THEN 0
    ELSE IF MatchesAt(content, old, i)
    THEN 1 + CountFrom(content, old, i + (IF old = <<>> THEN 1 ELSE Len(old)))
    ELSE CountFrom(content, old, i + 1)

StrCount(content, old) == CountFrom(content, old, 1)

FirstPosition(content, old) ==
    CHOOSE i \in Positions(content, old) :
        \A j \in Positions(content, old) : i <= j

\* str.replace(old, new, 1), for a content that contains old
StrReplaceFirst(content, old, new) ==
    LET i == FirstPosition(content, old)
    IN SubSeq(content, 1, i - 1) \o new
       \o SubSeq(content, i + Len(old), Len(content))

\* ---- json.dumps / json.loads of a string value (its body, without the
\* ---- quotes), as _rpc sends a message and handle_connection reads it
HexDigit(n) == IF n < 10 THEN 48 + n ELSE 87 + n
HexValue(c) == IF c <= 57 THEN c - 48 ELSE c - 87

JsonEscape(cp) ==
    IF cp = LF THEN <<92, 110>>
    ELSE IF cp = CR THEN <<92, 114>>
    ELSE IF cp = 34 \/ cp = 92 THEN <<92, cp>>
    ELSE IF cp > 126
    THEN <<92, 117, HexDigit(cp \div 4096), HexDigit((cp \div 256) % 16),
           HexDigit((cp \div 16) % 16), HexDigit(cp % 16)>>
    ELSE <<cp>>

\* json.dumps (ensure_ascii is on by default)
RECURSIVE JsonDumps(_)
JsonDumps(text) ==
    IF text = <<>> THEN <<>>
    ELSE JsonEscape(Head(text)) \o JsonDumps(Tail(text))

\* json.loads of what json.dumps produced
RECURSIVE JsonLoads(_)
JsonLoads(s) ==
    IF s = <<>> THEN <<>>
    ELSE IF Head(s) # 92 THEN <<Head(s)>> \o JsonLoads(Tail(s))
    ELSE IF s[2] = 117
    THEN <<HexValue(s[3]) * 4096 + HexValue(s[4]) * 256
           + HexValue(s[5]) * 16 + HexValue(s[6])>>
         \o JsonLoads(SubSeq(s, 7, Len(s)))
    ELSE <<IF s[2] = 110 THEN LF ELSE IF s[2] = 114 THEN CR ELSE s[2]>>
         \o JsonLoads(SubSeq(s, 3, Len(s)))

\* ---- base64: a character of the encoding is its 6-bit value, Pad is "="
Pad == 64

\* base64.b64encode
RECURSIVE B64Encode(_)
B64Encode(b) ==
    IF b = <<>> THEN <<>>
    ELSE IF Len(b) = 1
    THEN <<b[1] \div 4, (b[1] % 4) * 16, Pad, Pad>>
    ELSE IF Len(b) = 2
    THEN <<b[1] \div 4, (b[1] % 4) * 16 + (b[2] \div 16),
           (b[2] % 16) * 4, Pad>>
    ELSE <<b[1] \div 4, (b[1] % 4) * 16 + (b[2] \div 16),
           (b[2] % 16) * 4 + (b[3] \div 64), b[3] % 64>>
         \o B64Encode(SubSeq(b, 4, Len(b)))

\* base64.b64decode(validate=True) of a well-formed encoding
RECURSIVE B64Decode(_)
B64Decode(s) ==
    IF s = <<>> THEN <<>>
    ELSE LET b1 == s[1] * 4 + (s[2] \div 16)
             b2 == (s[2] % 16) * 16 + (s[3] \div 4)
             b3 == (s[3] % 4) * 64 + s[4]
         IN (IF s[3] = Pad THEN <<b1>>
             ELSE IF s[4] = Pad THEN <<b1, b2>>
             ELSE <<b1, b2, b3>>)
            \o B64Decode(SubSeq(s, 5, Len(s)))

\* ---- the handlers -------------------------------------------------------
ErrFileNotFound == "File not found"
ErrDecode == "UnicodeDecodeError"
ErrOldTextNotFound == "old_text not found"
ErrOldTextAppears == "old_text appears {count} times"
ErrWriteFailed == "write failed"

\* FileService.edit_file: the result, count (the number the error message
\* reports) and the bytes of the file afterwards
EditFileResult(bytes, old_text, new_text) ==
    LET r == ReadText(bytes)
        refuse(msg, n) == [success |-> FALSE, error |-> msg, count |-> n,
                           disk |-> bytes]
    IN IF bytes = NoFile THEN refuse(ErrFileNotFound, 0)
       ELSE IF ~r.ok THEN refuse(ErrDecode, 0)
       ELSE IF ~StrContains(r.text, old_text) THEN refuse(ErrOldTextNotFound, 0)
       ELSE IF StrCount(r.text, old_text) > 1
       THEN refuse(ErrOldTextAppears, StrCount(r.text, old_text))
       ELSE [success |-> TRUE, error |-> "", count |-> 1,
             disk |-> WriteText(StrReplaceFirst(r.text, old_text, new_text))]

\* FileService.read_bytes
ServerReadBytes(bytes) ==
    IF bytes = NoFile
    THEN [success |-> FALSE, error |-> ErrFileNotFound, content_b64 |-> <<>>]
    ELSE [success |-> TRUE, error |-> "", content_b64 |-> B64Encode(bytes)]

\* RemoteHost.read_bytes on the result of the RPC: the payload is decoded
\* when it is truthy, content stays None otherwise
ClientReadBytes(result) ==
    IF ~result.success
    THEN [success |-> FALSE, error |-> result.error, content |-> NoContent]
    ELSE [success |-> TRUE, error |-> "",
          content |-> IF result.content_b64 # <<>>
                      THEN B64Decode(result.content_b64) ELSE NoContent]

\* the last file operation: its arguments and what the caller got back;
\* tick is flipped by every operation
NoSvc == [op |-> "none", tick |-> FALSE, old_text |-> <<>>, new_text |-> <<>>,
          content |-> <<>>, success |-> FALSE, error |-> "", count |-> 0,
          data |-> NoContent]

FilesInit ==
    /\ disk \in Files \cup {NoFile}
    /\ svc = NoSvc

\* RemoteHost.edit_file -> FileService.edit_file.  The texts travel in the
\* JSON message.
EditFile(old_text, new_text) ==
    /\ LET r == EditFileResult(disk, JsonLoads(JsonDumps(old_text)),
                               JsonLoads(JsonDumps(new_text)))
       IN /\ Len(r.disk) <= MaxFile
          /\ disk' = r.disk
          /\ svc' = [NoSvc EXCEPT !.op = "edit_file", !.tick = ~svc.tick,
                                  !.old_text = old_text, !.new_text = new_text,
                                  !.success = r.success, !.error = r.error,
                                  !.count = r.count]
    /\ UNCHANGED <<serverVars, clientVars, managerVars, execVars, captureVars>>

\* RemoteHost.write_file -> FileService.write_file; ok is FALSE when
\* mkdir or write_text raises (the file is then left as it was)
WriteFile(content, ok) ==
    /\ LET bytes == WriteText(JsonLoads(JsonDumps(content)))
       IN /\ Len(bytes) <= MaxFile
          /\ disk' = IF ok THEN bytes ELSE disk
    /\ svc' = [NoSvc EXCEPT !.op = "write_file", !.tick = ~svc.tick,
                            !.content = content, !.success = ok,
                            !.error = IF ok THEN "" ELSE ErrWriteFailed]
    /\ UNCHANGED <<serverVars, clientVars, managerVars, execVars, captureVars>>

\* RemoteHost.read_bytes -> FileService.read_bytes
ReadBytes ==
    /\ LET r == ClientReadBytes(ServerReadBytes(disk))
       IN svc' = [NoSvc EXCEPT !.op = "read_bytes", !.tick = ~svc.tick,
                               !.success = r.success, !.error = r.error,
                               !.data = r.content]
    /\ UNCHANGED disk
    /\ UNCHANGED <<serverVars, clientVars, managerVars, execVars, captureVars>>

FilesNext ==
    \/ \E old_text \in Texts, new_text \in NewTexts : EditFile(old_text, new_text)
    \/ \E content \in Contents, ok \in BOOLEAN : WriteFile(content, ok)
    \/ ReadBytes

(***************************************************************************)
(* remote_server.py: CommandExecutor, SimpleExecutor and TmuxSession.      *)
(* handle_connection builds one CommandExecutor per accepted connection    *)
(* and cleans it up when the connection's handler ends; every TmuxSession  *)
(* of a server names the same session on the same socket.  The shell state *)
(* followed is the value of one environment variable X.                    *)
(***************************************************************************)
ShellCommands == {"export X=1", "export X=2", "echo $X", "false"}
ExecOutcomes == {"normal", "exception", "timeout"}

\* no tmux session of that name exists on the socket
NoPane == -1
\* the shell of a new session: X is not set
FreshShell == 0

\* what a command does to the shell it runs in
ShellAfter(state, command) ==
    IF command = "export X=1" THEN 1
    ELSE IF command = "export X=2" THEN 2
    ELSE state

\* $? of the command
ShellExit(command) == IF command = "false" THEN 1 ELSE 0

\* what the command prints in a shell in that state
ShellOutput(state, command) == IF command = "echo $X" THEN state ELSE 0

NoExecResult == [conn |-> 0, tick |-> FALSE, command |-> "", outcome |-> "none",
                 success |-> FALSE, exit_code |-> 0, output |-> 0]

\* TmuxSession.create: nothing when this object's session is running;
\* else a stale session of that name is killed and a new one is created
TmuxCreate(state, p) == IF state = "running" THEN p ELSE FreshShell

\* CommandExecutor._execute_tmux: success and exit_code of the result.
\* send_and_capture returns the exit code parsed from the end marker, or -1
\* when the capture timed out; an exception gives exit code -1.
TmuxResult(outcome, code) ==
    LET exit_code == IF outcome = "normal" THEN code ELSE -1
    IN [success |-> IF outcome = "exception" THEN FALSE ELSE exit_code = 0,
        exit_code |-> exit_code]

\* result.setdefault("exit_code", ...) that stores 0 whatever the result
SimpleExitCodeZero(success) == 0

\* result.setdefault("exit_code", 0 if result.get("success") else 1)
SimpleExitCode(success) == IF success THEN 0 ELSE 1

\* CommandExecutor._execute_simple: SimpleExecutor.execute gives success
\* (returncode == 0, or False when it caught an exception) and no
\* exit_code, which setdefault then adds
SimpleResult(outcome, code) ==
    LET success == IF outcome = "normal" THEN code = 0 ELSE FALSE
    IN [success |-> success, exit_code |-> SimpleExitCode(success)]

ExecInit ==
    /\ use_tmux \in BOOLEAN
    /\ executor = [c \in Conns |-> "none"]
    /\ pane = NoPane
    /\ exported = FreshShell
    /\ exec_result = NoExecResult

\* handle_connection after the handshake: executor = CommandExecutor(...)
Accept(c) ==
    /\ executor[c] = "none"
    /\ executor' = [executor EXCEPT ![c] = "created"]
    /\ UNCHANGED <<use_tmux, pane, exported, exec_result>>
    /\ UNCHANGED <<serverVars, clientVars, managerVars, fileVars, captureVars>>

\* an exec message on connection c in tmux mode.  "exception": a tmux
\* command of create fails before anything is changed; it is also what
\* send-keys (check=True) gives when the session this object believes to be
\* running has been killed.  "timeout": the command was sent, the end
\* marker did not show up in time.
ExecTmux(c, command, outcome) ==
    /\ use_tmux
    /\ executor[c] # "none"
    /\ LET p == TmuxCreate(executor[c], pane)
           raised == outcome = "exception" \/ p = NoPane
           r == TmuxResult(IF raised THEN "exception" ELSE outcome,
                           ShellExit(command))
       IN /\ executor' = [executor EXCEPT ![c] =
                            IF outcome = "exception" THEN @ ELSE "running"]
          /\ pane' = IF outcome = "exception" THEN pane
                     ELSE IF raised THEN p
                     ELSE ShellAfter(p, command)
          /\ exported' = IF raised THEN exported
                         ELSE ShellAfter(exported, command)
          /\ exec_result' =
                [conn |-> c, tick |-> ~exec_result.tick, command |-> command,
                 outcome |-> IF raised THEN "exception" ELSE outcome,
                 success |-> r.success, exit_code |-> r.exit_code,
                 output |-> IF raised \/ outcome = "timeout" THEN 0
                            ELSE ShellOutput(p, command)]
    /\ UNCHANGED use_tmux
    /\ UNCHANGED <<serverVars, clientVars, managerVars, fileVars, captureVars>>

\* an exec message on connection c in simple mode: the command runs in a
\* shell of its own
ExecSimple(c, command, outcome) ==
    /\ ~use_tmux
    /\ executor[c] # "none"
    /\ LET r == SimpleResult(outcome, ShellExit(command))
       IN exec_result' =
             [conn |-> c, tick |-> ~exec_result.tick, command |-> command,
              outcome |-> outcome,
              success |-> r.success, exit_code |-> r.exit_code,
              output |-> IF outcome = "normal"
                         THEN ShellOutput(FreshShell, command) ELSE 0]
    /\ UNCHANGED <<use_tmux, executor, pane, exported>>
    /\ UNCHANGED <<serverVars, clientVars, managerVars, fileVars, captureVars>>

\* the handler of connection c ends (close, shutdown, connection closed):
\* "finally: executor.cleanup()".  TmuxSession.destroy does nothing unless
\* this object's session is running; else it ends the session of that name.
HandlerEnds(c) ==
    /\ executor[c] # "none"
    /\ executor' = [executor EXCEPT ![c] = "none"]
    /\ pane' = IF use_tmux /\ executor[c] = "running" THEN NoPane ELSE pane
    /\ UNCHANGED <<use_tmux, exported, exec_result>>
    /\ UNCHANGED <<serverVars, clientVars, managerVars, fileVars, captureVars>>

ExecNext ==
    \/ \E c \in Conns : Accept(c)
    \/ \E c \in Conns, command \in ShellCommands, o \in ExecOutcomes :
          ExecTmux(c, command, o)
    \/ \E c \in Conns, command \in ShellCommands,
          o \in ExecOutcomes \ {"timeout"} : ExecSimple(c, command, o)
    \/ \E c \in Conns : HandlerEnds(c)

(***************************************************************************)
(* remote_server.py: TmuxSession.send_and_capture.  The pane is the list   *)
(* of lines capture-pane prints.  A line is one of                         *)
(*   "old"    text shown before the command was sent (neither marker)      *)
(*   "typed"  the prompt and the wrapped command as typed by send-keys:    *)
(*            it holds the text of the start marker and, at its end, the   *)
(*            text of the end marker followed by _${_nanobot_ec}           *)
(*   "start"  the start marker, printed by the first echo                  *)
(*   "out"    the n-th line the command prints                             *)
(*   "blank"  the empty line printed by the echo after the command         *)
(*   "end"    the end marker followed by _n, n the exit code               *)
(*   "rest"   what follows the start marker on the typed line              *)
(***************************************************************************)
MaxOutput == 2
MaxPolls == 3
ExitCodes == {0, 1}

PaneLine(kind, n) == [kind |-> kind, n |-> n]

\* "start_marker in line"
HasStartMarker(line) == line.kind \in {"typed", "start"}

\* "end_marker in line"
HasEndMarker(line) == line.kind \in {"typed", "end"}

\* "end_marker in raw"
EndMarkerIn(raw) == \E i \in DOMAIN raw : HasEndMarker(raw[i])

\* "not line.strip()"
IsEmptyLine(line) == line.kind = "blank"

\* int(suffix) of the text after the end marker, -1 on ValueError: the
\* typed line has the suffix ${_nanobot_ec}, which is no number
ParseExitCode(line) == IF line.kind = "end" THEN line.n ELSE -1

RECURSIVE TrimLeading(_)
TrimLeading(lines) ==
    IF lines # <<>> /\ IsEmptyLine(Head(lines)) THEN TrimLeading(Tail(lines))
    ELSE lines

RECURSIVE TrimTrailing(_)
TrimTrailing(lines) ==
    IF lines # <<>> /\ IsEmptyLine(lines[Len(lines)])
    THEN TrimTrailing(SubSeq(lines, 1, Len(lines) - 1))
    ELSE lines

\* the loop of _parse_markers over the lines still to read
RECURSIVE ParseLines(_, _, _)
ParseLines(lines, collecting, output_lines) ==
    IF lines = <<>> THEN [output_lines |-> output_lines, exit_code |-> -1]
    ELSE IF HasStartMarker(Head(lines))
         THEN ParseLines(Tail(lines), TRUE, output_lines)
    ELSE IF HasEndMarker(Head(lines))
         THEN [output_lines |-> output_lines,
               exit_code |-> ParseExitCode(Head(lines))]
    ELSE ParseLines(Tail(lines), collecting,
                    IF collecting THEN Append(output_lines, Head(lines))
                    ELSE output_lines)

\* TmuxSession._parse_markers
ParseMarkers(raw) ==
    LET r == ParseLines(raw, FALSE, <<>>)
    IN [output |-> TrimTrailing(TrimLeading(r.output_lines)),
        exit_code |-> r.exit_code]

\* TmuxSession._extract_partial: the text after the first start marker
ExtractPartial(raw) ==
    IF \A i \in DOMAIN raw : ~HasStartMarker(raw[i]) THEN raw
    ELSE LET idx == CHOOSE i \in DOMAIN raw :
                       /\ HasStartMarker(raw[i])
                       /\ \A j \in 1..(i - 1) : ~HasStartMarker(raw[j])
             after == (IF raw[idx].kind = "typed"
                       THEN <<PaneLine("rest", 0)>> ELSE <<>>)
                      \o SubSeq(raw, idx + 1, Len(raw))
         IN TrimTrailing(TrimLeading(after))

NoCapture == [output |-> <<>>, exit_code |-> 0]

\* what the shell of the pane is doing: waiting at its prompt, or at a step
\* of the wrapped command "echo START; command; _nanobot_ec=$?; echo;
\* echo END_${_nanobot_ec}"
ShellAtPrompt == [pc |-> "prompt", printed |-> 0, lines |-> 0, code |-> 0]

CaptureIdle == [pc |-> "idle", polls |-> 0, raw |-> <<>>, timed_out |-> FALSE,
                result |-> NoCapture]

CaptureInit ==
    /\ tmux_pane \in {<<>>, <<PaneLine("old", 0)>>}
    /\ shell = ShellAtPrompt
    /\ capture = CaptureIdle

\* send_and_capture up to its poll loop: the wrapped command is typed into
\* the pane and Enter is sent.  The command prints lines output lines and
\* ends with exit code code.
SendKeys(lines, code) ==
    /\ capture.pc = "idle"
    /\ shell.pc = "prompt"
    /\ tmux_pane' = Append(tmux_pane, PaneLine("typed", 0))
    /\ shell' = [pc |-> "start", printed |-> 0, lines |-> lines, code |-> code]
    /\ capture' = [capture EXCEPT !.pc = "poll"]
    /\ UNCHANGED <<serverVars, clientVars, managerVars, fileVars, execVars>>

\* the shell runs the next piece of the wrapped command
ShellStep ==
    /\ shell.pc \in {"start", "command", "echo", "end"}
    /\ \/ /\ shell.pc = "start"
          /\ tmux_pane' = Append(tmux_pane, PaneLine("start", 0))
          /\ shell' = [shell EXCEPT !.pc = "command"]
       \/ /\ shell.pc = "command"
          /\ shell.printed < shell.lines
          /\ tmux_pane' = Append(tmux_pane, PaneLine("out", shell.printed + 1))
          /\ shell' = [shell EXCEPT !.printed = @ + 1]
       \/ /\ shell.pc = "command"
          /\ shell.printed = shell.lines
          /\ tmux_pane' = tmux_pane
          /\ shell' = [shell EXCEPT !.pc = "echo"]
       \/ /\ shell.pc = "echo"
          /\ tmux_pane' = Append(tmux_pane, PaneLine("blank", 0))
          /\ shell' = [shell EXCEPT !.pc = "end"]
       \/ /\ shell.pc = "end"
          /\ tmux_pane' = Append(tmux_pane, PaneLine("end", shell.code))
          /\ shell' = [shell EXCEPT !.pc = "finished"]
    /\ UNCHANGED capture
    /\ UNCHANGED <<serverVars, clientVars, managerVars, fileVars, execVars>>

\* TmuxSession._capture_raw: the pane, or nothing when capture-pane fails
CaptureRaw(ok) == IF ok THEN tmux_pane ELSE <<>>

\* one turn of the poll loop before the deadline: the loop ends when the
\* end marker is in the captured text, and the text is parsed
Poll(ok) ==
    /\ capture.pc = "poll"
    /\ capture.polls < MaxPolls
    /\ LET raw == CaptureRaw(ok)
       IN capture' = IF EndMarkerIn(raw)
                     THEN [capture EXCEPT !.pc = "done", !.raw = raw,
                                          !.polls = @ + 1,
                                          !.result = ParseMarkers(raw)]
                     ELSE [capture EXCEPT !.raw = raw, !.polls = @ + 1]
    /\ UNCHANGED <<tmux_pane, shell>>
    /\ UNCHANGED <<serverVars, clientVars, managerVars, fileVars, execVars>>

\* the deadline passed without the end marker in the captured text
PollTimeout ==
    /\ capture.pc = "poll"
    /\ capture.polls = MaxPolls
    /\ capture' = [capture EXCEPT !.pc = "done", !.timed_out = TRUE,
                                  !.result = [output |-> ExtractPartial(capture.raw),
                                              exit_code |-> -1]]
    /\ UNCHANGED <<tmux_pane, shell>>
    /\ UNCHANGED <<serverVars, clientVars, managerVars, fileVars, execVars>>

CaptureNext ==
    \/ \E lines \in 0..MaxOutput, code \in ExitCodes : SendKeys(lines, code)
    \/ ShellStep
    \/ \E ok \in BOOLEAN : Poll(ok)
    \/ PollTimeout

(***************************************************************************)
(* Specifications: the components are checked one at a time, each with the *)
(* others at rest in one fixed initial state                               *)
(***************************************************************************)
Init == ServerInit /\ ClientInit /\ ManagerInit /\ FilesInit /\ ExecInit /\ CaptureInit

\* the server at rest: started without a token, no connection served yet;
\* the manager at rest: a registry whose hosts are as config.py builds them
InitServer ==
    /\ ServerInit /\ ClientInit /\ ManagerInit /\ FilesInit /\ ExecInit /\ CaptureInit
    /\ tmux_pane = <<>>
    /\ disk = <<>>
    /\ use_tmux
    /\ active_session = [n \in Names |-> Absent]
    /\ config = [n \in Names |-> [local_port |-> NoPort,
                                   remote_port |-> DefaultRemotePort,
                                   auth_token |-> NoToken]]

InitClient ==
    /\ ServerInit /\ ClientInit /\ ManagerInit /\ FilesInit /\ ExecInit /\ CaptureInit
    /\ tmux_pane = <<>>
    /\ disk = <<>>
    /\ use_tmux
    /\ auth_token = EmptyToken
    /\ active_session = [n \in Names |-> Absent]
    /\ config = [n \in Names |-> [local_port |-> NoPort,
                                   remote_port |-> DefaultRemotePort,
                                   auth_token |-> NoToken]]

InitManager ==
    /\ ServerInit /\ ClientInit /\ ManagerInit /\ FilesInit /\ ExecInit /\ CaptureInit
    /\ tmux_pane = <<>>
    /\ auth_token = EmptyToken
    /\ disk = <<>>
    /\ use_tmux

\* the file service on any file within the bounds
InitFiles ==
    /\ ServerInit /\ ClientInit /\ ManagerInit /\ FilesInit /\ ExecInit /\ CaptureInit
    /\ tmux_pane = <<>>
    /\ auth_token = EmptyToken
    /\ active_session = [n \in Names |-> Absent]
    /\ config = [n \in Names |-> [local_port |-> NoPort,
                                   remote_port |-> DefaultRemotePort,
                                   auth_token |-> NoToken]]
    /\ use_tmux

\* the executors of a server started in either mode
InitExec ==
    /\ ServerInit /\ ClientInit /\ ManagerInit /\ FilesInit /\ ExecInit /\ CaptureInit
    /\ tmux_pane = <<>>
    /\ auth_token = EmptyToken
    /\ active_session = [n \in Names |-> Absent]
    /\ config = [n \in Names |-> [local_port |-> NoPort,
                                   remote_port |-> DefaultRemotePort,
                                   auth_token |-> NoToken]]
    /\ disk = <<>>

SpecServer == InitServer /\ [][ServerNext]_vars

SpecClient == InitClient /\ [][ClientNext]_vars

SpecManager == InitManager /\ [][ManagerNext]_vars

SpecRegistry == InitManager /\ [][RegistryNext]_vars

SpecDisconnect == InitManager /\ [][DisconnectNext]_vars

SpecControl == InitServer /\ [][ControlNext]_vars

SpecCancel == InitServer /\ [][CancelNext]_vars

SpecFiles == InitFiles /\ [][FilesNext]_vars

SpecExec == InitExec /\ [][ExecNext]_vars

\* send_and_capture on any command within the bounds
InitCapture ==
    /\ ServerInit /\ ClientInit /\ ManagerInit /\ FilesInit /\ ExecInit /\ CaptureInit
    /\ auth_token = EmptyToken
    /\ active_session = [n \in Names |-> Absent]
    /\ config = [n \in Names |-> [local_port |-> NoPort,
                                   remote_port |-> DefaultRemotePort,
                                   auth_token |-> NoToken]]
    /\ disk = <<>>
    /\ use_tmux

SpecCapture == InitCapture /\ [][CaptureNext]_vars

(***************************************************************************)
(* Claims about the server                                                 *)
(***************************************************************************)
Busy(c) == spc[c] \in {"dispatch", "send", "sendErr"}

C2_ResponseOfFirstDispatch ==
    (wire.kind \in {"cached", "join", "dispatch"} /\ wire.same)
        => wire.resp = firstResp[wire.resp.request_id]

\* C3: a request whose request_id was first used with a different payload is
\* answered with the reuse error and is never dispatched to a handler.
C3_ReuseRejected ==
    /\ (wire.kind # "none" /\ ~wire.same)
          => (wire.resp.type = "error" /\ wire.resp.message = ReuseMsg)
    /\ \A c \in Conns :
          Busy(c) => SamePayload(cur[c].request_id, PayloadHash(cur[c]))

\* C4: while a request_id is being dispatched on one connection, a request
\* with the same request_id on another connection starts no second handler
\* run but waits for that run, and the frame it sends is the frame the
\* dispatching connection sends.
C4_InflightDedupe ==
    /\ \A c1, c2 \in Conns :
          (c1 # c2 /\ Busy(c1) /\ Busy(c2))
              => cur[c1].request_id # cur[c2].request_id
    /\ \A k \in Conns :
          spc[k] = "join" =>
              \E c \in Conns : /\ spc[c] = "dispatch"
                               /\ cur[c].request_id = cur[k].request_id
                               /\ curExec[c] = curExec[k]
    /\ \A k \in Conns :
          spc[k] = "joinReady" =>
              /\ \A c \in Conns :
                    (FutureDone(c) /\ curExec[c] = curExec[k])
                        => curResp[c] = curResp[k]
              /\ (wire.kind = "dispatch" /\ wire.exec = curExec[k])
                    => wire.resp = curResp[k]
    /\ \A c \in Conns :
          (FutureDone(c) /\ wire.kind = "join" /\ wire.exec = curExec[c])
              => wire.resp = curResp[c]

\* C4 witness: the dispatching connection has sent its result and a
\* connection that joined the same run with the same payload is about to
\* send the same frame.
C4_Witness ==
    \E k \in Conns :
        /\ spc[k] = "joinReady"
        /\ SamePayload(cur[k].request_id, PayloadHash(cur[k]))
        /\ wire.kind = "dispatch"
        /\ wire.exec = curExec[k]
        /\ wire.resp.type = "result"
        /\ wire.resp = curResp[k]

\* the message loop is entered by slot c in this step
EntersLoop(c) == spc[c] = "new" /\ spc'[c] # "new"

\* what the handshake of this step put on the wire when it answered with
\* frame type and message (nothing when the connection no longer took it)
Answered(type, message) ==
    wire' = IF handshake'.sendOk THEN AuthFrame(type, message) ELSE NoSent

\* the handshake of this step leaves the idempotency state and the handler
\* count alone, and the handler has returned
RefusedAndEnded ==
    /\ spc'[handshake'.conn] = "new"
    /\ UNCHANGED <<REQUEST_RESULTS, REQUEST_INFLIGHT, REQUEST_ORDER,
                   execCount, dispatched, cur, curResp>>

\* C17 (as stated): with a non-empty configured token, a first frame that
\* carries another token (or none) is answered by the one frame error
\* 'Authentication failed' and the handler returns: the message loop is
\* entered only after a frame with the configured token, no handler runs
\* and no cache entry is made; with an empty configured token every first
\* frame, whatever it is, is accepted.
C17_EveryFirstFrameAccepted ==
    [][/\ \A c \in Conns :
            EntersLoop(c)
            => /\ handshake'.conn = c
               /\ \/ auth_token = EmptyToken
                  \/ /\ handshake'.frame.kind = "object"
                     /\ handshake'.frame.token = auth_token
       /\ (/\ handshake'.conn # 0
           /\ auth_token # EmptyToken
           /\ handshake'.frame.kind = "object"
           /\ handshake'.frame.token # auth_token)
          => /\ Answered("error", AuthFailedMsg)
             /\ RefusedAndEnded
       /\ (handshake'.conn # 0 /\ auth_token = EmptyToken)
          => /\ Answered("authenticated", AuthOkMsg)
             /\ handshake'.sendOk => spc'[handshake'.conn] = "idle"
      ]_vars

\* C17: as above, but with an empty configured token it is every first
\* frame that is JSON which is accepted; a first frame that is not JSON
\* ends the connection with nothing sent.
C17_AuthGate ==
    [][/\ \A c \in Conns :
            EntersLoop(c)
            => /\ handshake'.conn = c
               /\ handshake'.frame.kind # "text"
               /\ \/ auth_token = EmptyToken
                  \/ /\ handshake'.frame.kind = "object"
                     /\ handshake'.frame.token = auth_token
       /\ (/\ handshake'.conn # 0
           /\ auth_token # EmptyToken
           /\ handshake'.frame.kind = "object"
           /\ handshake'.frame.token # auth_token)
          => /\ Answered("error", AuthFailedMsg)
             /\ RefusedAndEnded
       /\ (/\ handshake'.conn # 0
           /\ auth_token = EmptyToken
           /\ handshake'.frame.kind # "text")
          => /\ Answered("authenticated", AuthOkMsg)
             /\ handshake'.sendOk => spc'[handshake'.conn] = "idle"
       /\ (handshake'.conn # 0 /\ handshake'.frame.kind = "text")
          => /\ wire' = NoSent
             /\ RefusedAndEnded
      ]_vars

\* a connection whose first frame carried a token other than the configured
\* one has been answered with the error frame and its handler has returned,
\* after requests of other connections were handled and cached
C17_Witness ==
    /\ handshake.conn # 0
    /\ auth_token # EmptyToken
    /\ handshake.frame.kind = "object"
    /\ handshake.frame.token \in Tokens \ {auth_token}
    /\ wire = AuthFrame("error", AuthFailedMsg)
    /\ spc[handshake.conn] = "new"
    /\ REQUEST_ORDER # <<>>

(***************************************************************************)
(* Claims about RemoteHost                                                 *)
(***************************************************************************)
SetupStages == {"setupTunnel", "setupDeploy", "setupWs", "setupAuth",
                "setupFailed"}
RecoverStages == {"recTunnel", "recWs", "recAuth", "recDown"}

\* caller t starts an _rpc call in this step
RpcEntered(t) == call[t].pc = "idle" /\ call'[t].op = "rpc"

\* C5: once the RemoteHost has a session_id, no _rpc call reaches setup():
\* an _rpc call that finds the transport down on a handle with a session_id
\* runs _recover_transport only; a session id is minted only on entry to
\* setup(), and from the RPC path only while session_id is unset.
C5_RpcNeverRedeploys ==
    [][/\ \A t \in Callers :
            (RpcEntered(t) /\ host.session_id # NoSession) =>
                /\ call'[t].pc \notin SetupStages
                /\ ~TransportReady(host) => call'[t].pc = "recTunnel"
       /\ \A t \in Callers :
            (call'[t].op = "rpc" /\ call'[t].pc \in SetupStages
                /\ call[t].pc \notin SetupStages) =>
                /\ call[t].pc = "idle"
                /\ host.session_id = NoSession
       /\ minted' # minted =>
            \E t \in Callers :
                /\ call[t].pc = "idle" /\ call'[t].pc = "setupTunnel"
                /\ call'[t].op = "rpc" => host.session_id = NoSession
      ]_vars

\* an _rpc call found the transport of a handle with a session down and is
\* recovering it from _ensure_transport_ready; one session id was minted
C5_Witness ==
    \E t \in Callers :
        /\ call[t].op = "rpc" /\ call[t].ret = "ensure"
        /\ call[t].pc = "recTunnel"
        /\ host.session_id # NoSession
        /\ minted = 1

\* C6: session_id keeps its value through every step of an _rpc call, every
\* transport loss, every _mark_transport_down and every _recover_transport
\* (successful or failed), and teardown does not change it either: once set,
\* it changes only when a caller enters setup() directly.
C6_SessionIdKept ==
    [][(/\ host.session_id # NoSession
        /\ ~ \E t \in Callers : call[t].pc = "idle" /\ call'[t].op = "setup")
       => host'.session_id = host.session_id]_vars

\* a connection was lost under a request, the transport was marked down
\* and recovered, and the handle is connected again with the one session id
\* ever minted
C6_Witness ==
    \E t \in Callers :
        /\ call[t].recovs = 1 /\ call[t].pc = "recv"
        /\ TransportReady(host)
        /\ host.session_id = 1 /\ minted = 1
        /\ wsCount = 2

\* C7: one _rpc call sends its request at most twice and runs at most one
\* recovery after a send/recv error; every frame it sends carries the
\* call's request_id; a recovery after an error happens on the first
\* attempt only, and when it succeeds the request has been sent exactly
\* twice.
C7_RetryOnceSameRequestId ==
    \A t \in Callers :
        LET c == call[t] IN
        /\ Len(c.sent) <= RpcAttempts
        /\ c.recovs <= 1
        /\ \A i \in 1..Len(c.sent) : c.sent[i] = c.rid
        /\ (c.pc \in RecoverStages /\ c.ret = "retry") =>
               (c.attempt = 0 /\ Len(c.sent) = 1 /\ c.recovs = 1)
        /\ (c.pc = "recv" /\ c.recovs = 1) =>
               (c.attempt = 1 /\ Len(c.sent) = 2)
        /\ (c.pc = "recv" /\ c.recovs = 0) =>
               (c.attempt = 0 /\ Len(c.sent) = 1)

\* a call whose first attempt hit a transport error has recovered and has
\* resent the request with the same request_id
C7_Witness ==
    \E t \in Callers :
        /\ call[t].pc = "recv" /\ call[t].attempt = 1
        /\ call[t].sent = <<call[t].rid, call[t].rid>>
        /\ \E i \in 1..Len(sentReqs) : sentReqs[i].rid = call[t].rid

\* C8: at most one request is outstanding on the websocket: while a caller
\* is between its send and the end of its recv, no other caller is in a
\* send/recv pair or in a transport recovery.
C8_OneOutstandingRequest ==
    \A t, u \in Callers :
        (t # u /\ call[t].pc = "recv") =>
            call[u].pc \notin ({"recv"} \cup RecoverStages)

\* number of requests sent on connection ws whose response the client has
\* not read
Unanswered(reqs, resps, ws) ==
    Len(SelectSeq(reqs, LAMBDA e : e.ws = ws))
        + Len(SelectSeq(resps, LAMBDA e : e.ws = ws))

\* C9: on one connection the response of request N has been read before
\* request N+1 is sent, whatever the outcome of the earlier calls was
\* (result, error, timeout).  Stated for a request sent while no other
\* caller is inside a call: after the send, the connection carries no
\* other request whose response is unread.
C9_ResponseBeforeNextRequest ==
    [][\A t \in Callers :
           (/\ call[t].pc # "recv" /\ call'[t].pc = "recv"
            /\ \A u \in Callers \ {t} : call[u].pc = "idle")
           => \A ws \in 1..MaxWs : Unanswered(sentReqs', respQ', ws) <= 1
      ]_vars

\* _recover_transport returns False to the _rpc of caller t in this step:
\* its last _mark_transport_down is over, or had nothing to wait for (a
\* recovery that succeeds leaves the handle running)
RecoveryGaveUp(t) ==
    /\ call'[t].pc = "idle"
    /\ \/ call[t].pc = "recDown"
       \/ call[t].pc \in RecoverStages /\ ~host'.running

\* the step of caller t puts no request on the wire (closing a websocket
\* drops the ones in flight on it) and mints no session id
NoSendNoSetup(t) ==
    /\ Len(sentReqs') <= Len(sentReqs)
    /\ minted' = minted
    /\ call'[t].pc \notin SetupStages

ReadsFrame(t) ==
    /\ call[t].pc = "recv"
    /\ call'[t].pc = "idle"
    /\ Len(respQ') < Len(respQ)

\* the frame the recv of caller t reads
FrameRead(t) == respQ[FirstOf(respQ, call[t].ws)]

\* C19: when the response frame read by _rpc carries a request_id different
\* from the one the call sent, _rpc returns success=false with 'Mismatched
\* request_id in response' and the frame is not handed to the caller; any
\* frame a call hands to its caller carries the call's own request_id.
C19_MismatchedResponseRejected ==
    [][\A t \in Callers :
           ReadsFrame(t) =>
               /\ returned'.caller = t
               /\ FrameRead(t).rid \notin {NoRid, call[t].rid} =>
                      /\ returned'.value = Err(ErrMismatched)
                      /\ returned'.value.data # FrameRead(t)
               /\ returned'.value.data # NoFrame =>
                      returned'.value.data.rid = call[t].rid
      ]_vars

\* a call has just read the late response of an earlier call on the same
\* connection and returned the mismatch error; the frame is gone from the
\* queue
C19_Witness ==
    /\ returned.caller # 0
    /\ returned.value = Err(ErrMismatched)
    /\ call[returned.caller].pc = "idle"
    /\ host.websocket \in wsOpen
    /\ calls >= 2

\* the wait_for of caller t's recv gives up in this step: the connection
\* is open, no other recv competes for it, and no frame is taken
TimesOut(t) ==
    /\ call[t].pc = "recv"
    /\ call[t].ws \in wsOpen
    /\ \A u \in Callers \ {t} :
           ~(call[u].pc = "recv" /\ call[u].ws = call[t].ws)
    /\ call'[t] # call[t]
    /\ respQ' = respQ

\* C20: when no response arrives within the timeout, _rpc returns
\* success=false with the 'timed out' error; the step starts no transport
\* recovery, sends nothing, and leaves the handle (running, authenticated,
\* websocket, session_id, tunnel) and the connection as they were.
C20_TimeoutOnlyReturns ==
    [][\A t \in Callers :
           TimesOut(t) =>
               /\ call'[t].pc = "idle"
               /\ returned' = [caller |-> t, op |-> "rpc",
                               value |-> Err(ErrTimedOut)]
               /\ host' = host
               /\ sentReqs' = sentReqs
               /\ wsOpen' = wsOpen
               /\ minted' = minted /\ wsCount' = wsCount
      ]_vars

\* a call has just returned the timeout error on a connected handle whose
\* websocket is still open, with its request still unanswered on the wire
C20_Witness ==
    /\ returned.caller # 0
    /\ returned.value = Err(ErrTimedOut)
    /\ TransportReady(host)
    /\ host.websocket \in wsOpen
    /\ \E i \in 1..Len(sentReqs) : sentReqs[i].ws = host.websocket

\* C21: every _rpc call ends by returning a record with a boolean success
\* field: whatever happened inside (failed setup, failed recovery, send or
\* recv error, frame that is not JSON, frame of an unknown type, timeout),
\* no exception reaches the caller.
C21_RpcAlwaysReturnsARecord ==
    [][\A t \in Callers :
           (call'[t].pc = "idle" /\ call'[t] # call[t]
                /\ call[t].op = "rpc") =>
               /\ returned'.caller = t /\ returned'.op = "rpc"
               /\ ~returned'.value.raised
               /\ returned'.value.success \in BOOLEAN
               /\ ~returned'.value.success => returned'.value.error # ""
      ]_vars

\* an _rpc call on a fresh handle ran setup, setup failed and tore down,
\* and the call returned the error record
C21_Witness ==
    /\ returned.caller # 0 /\ returned.op = "rpc"
    /\ returned.value = Err(ErrSetupFailed)
    /\ ~host.running /\ host.websocket = NoWs

\* C22: when the deploy script exits with a non-zero status during setup,
\* setup fails at that step: the call goes to the failure branch (remote
\* log, teardown, raise) and never waits for the WebSocket connect or the
\* authentication, so the handle never becomes connected by that setup.
C22_DeployFailureStopsSetup ==
    \A t \in Callers :
        call[t].deploy = "nonzero" =>
            /\ call[t].pc \in {"setupFailed"} \cup TeardownStages
            /\ ~(host.running /\ host.authenticated)

\* the handle is connected (the property is_connected)
IsConnected(h) == h.running /\ h.authenticated

\* the setup of caller t ends in failure in this step: its teardown is over
FailedSetupEnds(t) ==
    /\ call[t].pc \in TeardownStages
    /\ call[t].op # "teardown" /\ call'[t].pc = "idle"

\* C23: when a step of setup() (tunnel, deploy, WebSocket connect,
\* authentication) raises, teardown() is run and then ConnectionError is
\* raised (inside _rpc it is turned into the error record); at that point
\* the handle is not connected and holds neither a websocket nor a tunnel
\* process.  A setup call ends in no other way than by returning the
\* session id or by this raise after teardown.
C23_SetupFailureTearsDown ==
    [][\A t \in Callers :
           /\ (call[t].pc = "setupFailed" /\ call'[t] # call[t]) =>
                  call'[t].pc \in TeardownStages
           /\ (call[t].pc \in SetupStages /\ call'[t].pc = "idle") =>
                  /\ call[t].pc = "setupAuth"
                  /\ ~returned'.value.raised
           /\ FailedSetupEnds(t) =>
                  /\ returned'.caller = t
                  /\ returned'.value =
                         IF call[t].op = "setup" THEN Raise("ConnectionError")
                         ELSE Err(ErrSetupFailed)
                  /\ ~IsConnected(host')
                  /\ host'.websocket = NoWs
                  /\ ~host'.tunnel_process
      ]_vars

(***************************************************************************)
(* Claims about HostManager                                                *)
(***************************************************************************)
\* the task is inside resume-or-deploy, about to run or running what
Doing(t, what) ==
    \/ t.pc = what
    \/ t.pc = "wait" /\ t.what = (IF what = "setup" THEN "deploy" ELSE what)

\* handles of name n that a fresh setup is creating or has created and that
\* have not been torn down
FreshLive(n) ==
    {h \in Handles : /\ handles[h].name = n
                     /\ handles[h].fresh
                     /\ handles[h].state \in {"setup", "connected"}}

C13_SessionSurvivesReload ==
    \A n \in Names :
        LET c == FromDict(hosts_json[n]) IN
        IF active_session[n] \in {Absent, NoSession}
        THEN c.active_session = Absent
        ELSE /\ c.active_session = active_session[n]
             /\ c.session_snapshot = session_snapshot[n]

\* C14: get_or_connect(n) called while a handle is registered for n returns
\* that handle at once: no ping, no lock, no teardown, no new handle; the
\* live map, the handles and the registry are as before.
C14_ReturnsRegisteredHandle ==
    [][\A k \in Tasks :
         LET t == mtask[k]
             t1 == mtask'[k]
         IN  (/\ t1.id # t.id
              /\ t1.op = "get_or_connect"
              /\ connections[t1.name] # NoHandle)
             => /\ t1.pc = "idle"
                /\ t1.ret = connections[t1.name]
                /\ UNCHANGED <<connections, handles, nh, lock, remote,
                               sessCount, active_session, session_snapshot,
                               config, hosts_json>>
      ]_vars

\* get_or_connect has returned a registered handle whose transport was down
C14_Witness ==
    \E k \in Tasks :
        /\ mtask[k].op = "get_or_connect"
        /\ mtask[k].pc = "idle"
        /\ mtask[k].found = "down"
        /\ mtask[k].ret >= 1
        /\ connections[mtask[k].name] = mtask[k].ret
        /\ handles[mtask[k].ret].state = "down"

EditStep == svc'.op = "edit_file" /\ svc'.tick # svc.tick

\* after is before with one occurrence of old_text replaced by new_text
\* and nothing else changed (files are bytes, the texts are UTF-8 encoded)
OneReplacement(before, after, old_text, new_text) ==
    LET o == Utf8Encode(old_text)
        n == Utf8Encode(new_text)
    IN \E i \in 1..(Len(before) + 1) :
           /\ MatchesAt(before, o, i)
           /\ after = SubSeq(before, 1, i - 1) \o n
                      \o SubSeq(before, i + Len(o), Len(before))

\* C24: every edit_file call that returns success leaves the file equal to
\* its previous content with exactly one occurrence of old_text replaced by
\* new_text and nothing else changed; every edit_file call that returns an
\* error leaves the file unchanged.
C24_EditReplacesExactlyOne ==
    [][EditStep =>
          IF svc'.success
          THEN /\ disk # NoFile
               /\ OneReplacement(disk, disk', svc'.old_text, svc'.new_text)
          ELSE disk' = disk]_vars

\* C25: edit_file on a file whose content old_text matches at two or more
\* positions is refused with the error that reports a number of
\* occurrences, and the file is not written.
C25_MultipleMatchesRefused ==
    [][(/\ EditStep
        /\ disk # NoFile
        /\ ReadText(disk).ok
        /\ Cardinality(Positions(ReadText(disk).text, svc'.old_text)) >= 2)
       => (/\ ~svc'.success
           /\ svc'.error = ErrOldTextAppears
           /\ svc'.count >= 2
           /\ disk' = disk)]_vars

\* C26: for every text c, write_file(p, c) followed by read_bytes(p)
\* returns success with content equal to the UTF-8 encoding of c.
C26_WriteThenReadBytes ==
    [][(/\ svc.op = "write_file" /\ svc.success
        /\ svc'.op = "read_bytes" /\ svc'.tick # svc.tick)
       => (/\ svc'.success
           /\ svc'.data = Utf8Encode(svc.content))]_vars

\* C27: every exec result, in tmux mode and in simple mode, on normal
\* completion, on an executor exception and on a capture timeout, has
\* success == (exit_code == 0).
C27_SuccessIffExitCodeZero ==
    exec_result.outcome # "none" =>
        (exec_result.success <=> (exec_result.exit_code = 0))

\* simple mode, the executor caught an exception: the result carries no
\* exit code of a process, setdefault supplies 1
C27_Witness ==
    /\ ~use_tmux
    /\ exec_result.outcome = "exception"
    /\ ~exec_result.success /\ exec_result.exit_code = 1

\* the connection the result of this step's exec went to is the only one
\* the server is serving
OnlyConnection ==
    \A c \in Conns : executor[c] # "none" <=> c = exec_result'.conn

\* C28: in tmux mode a command that prints X prints the value exported
\* last by the commands run since the server started, also when those came
\* over an earlier connection (checked for an exec on the only connection
\* the server is serving: the client has one connection at a time).
C28_ShellStateSurvivesReconnect ==
    [][(/\ use_tmux
        /\ exec_result'.tick # exec_result.tick
        /\ exec_result'.command = "echo $X"
        /\ exec_result'.outcome = "normal"
        /\ OnlyConnection)
       => exec_result'.output = exported]_vars

(***************************************************************************)
(* Claims about close, shutdown and unknown message types                  *)
(***************************************************************************)
\* the message read in this step went to _dispatch_message (fast path, or
\* step 3 of the idempotency protocol)
Dispatched == received'.path \in {"fast", "execute"}

\* the message read in this step was taken by the idempotency layer: it
\* was answered from the done cache or joined to a request in flight
Deduplicated == received'.path \in {"cached", "join"}

\* in this step the handler of connection c sends the answer to the
\* message it read in an earlier step
Answers(c) ==
    /\ spc[c] \in {"send", "joinReady"}
    /\ spc'[c] \in {"idle", "new"}
    /\ wire' # NoSent

\* the handler of no connection but c ends in this step
OnlyEnds(c) == \A d \in Conns \ {c} : spc'[d] = "new" => spc[d] = "new"

\* C29 (as stated): a close message ends only the connection that sent it
\* and leaves the stop event unset; a shutdown message sets the stop event
\* and is answered with shutdown_ack on that connection; no other message
\* type sets the stop event.
C29_CloseAndShutdown ==
    [][/\ stop_event' # stop_event => received'.type = "shutdown"
       /\ received'.type = "close" =>
             /\ stop_event' = stop_event
             /\ OnlyEnds(received'.conn)
             /\ wire' # NoSent => spc'[received'.conn] = "new"
       /\ received'.type = "shutdown" =>
             /\ stop_event'
             /\ wire' # NoSent => wire'.resp.type = "shutdown_ack"
       /\ \A c \in Conns :
             (Answers(c) /\ cur[c].type = "close") => spc'[c] = "new"
       /\ \A c \in Conns :
             (Answers(c) /\ cur[c].type = "shutdown") =>
                 wire'.resp.type = "shutdown_ack"]_vars

\* C29 (amended): the statement holds for the close and shutdown messages
\* that reach _dispatch_message (no request_id, or a request_id that is
\* neither in the done cache nor in flight): a close ends its connection
\* after its answer and no other, and leaves the stop event as it is; a
\* shutdown sets the stop event and its answer is shutdown_ack, after which
\* its connection ends.  Nothing else sets the stop event, and nothing
\* clears it.  A close or shutdown whose request_id is in the done cache or
\* in flight is answered by the idempotency layer: it leaves the stop event
\* as it is and its connection open.
C29_DispatchedCloseAndShutdown ==
    [][/\ stop_event' # stop_event =>
             (stop_event' /\ received'.type = "shutdown" /\ Dispatched)
       /\ (received'.type = "shutdown" /\ Dispatched) => stop_event'
       /\ (received'.type \in {"close", "shutdown"} /\ received'.path = "fast") =>
             /\ spc'[received'.conn] = "new"
             /\ OnlyEnds(received'.conn)
             /\ wire' # NoSent =>
                   wire'.resp.type = IF received'.type = "close"
                                     THEN "result" ELSE "shutdown_ack"
       /\ \A c \in Conns :
             (spc[c] = "send" /\ spc'[c] # "send"
              /\ cur[c].type \in {"close", "shutdown"}) =>
                 /\ spc'[c] = "new"
                 /\ OnlyEnds(c)
                 /\ wire' # NoSent =>
                       wire'.resp.type = IF cur[c].type = "close"
                                         THEN "result" ELSE "shutdown_ack"
       /\ Deduplicated =>
             /\ stop_event' = stop_event
             /\ OnlyEnds(received'.conn)
             /\ (received'.path = "cached" /\ wire' # NoSent) =>
                   spc'[received'.conn] = "idle"
       /\ \A c \in Conns :
             (spc[c] = "joinReady" /\ Answers(c)) => spc'[c] = "idle"]_vars

\* a shutdown that carried a fresh request_id was dispatched and answered:
\* the stop event is set and shutdown_ack is on the wire
C29_Witness ==
    /\ stop_event
    /\ wire.kind = "dispatch"
    /\ wire.resp.type = "shutdown_ack"
    /\ wire.resp.request_id # NoRid

\* C30: a message with an unknown type, with or without a request_id, is
\* answered with an error and changes no server state: no handler runs, the
\* idempotency cache, its eviction order and the in-flight map are
\* unchanged, and the connection stays open.
C30_UnknownTypeChangesNothing ==
    [][/\ received'.type = "bogus" =>
             /\ REQUEST_RESULTS' = REQUEST_RESULTS
             /\ REQUEST_ORDER' = REQUEST_ORDER
             /\ REQUEST_INFLIGHT' = REQUEST_INFLIGHT
             /\ execCount' = execCount
             /\ stop_event' = stop_event
             /\ wire' # NoSent =>
                   /\ wire'.resp.type = "error"
                   /\ spc'[received'.conn] = "idle"
       /\ \A c \in Conns :
             (Answers(c) /\ cur[c].type = "bogus") =>
                 /\ wire'.resp.type = "error"
                 /\ spc'[c] = "idle"]_vars

(***************************************************************************)
(* Claims about teardown and transport recovery                            *)
(***************************************************************************)
\* position of a step in the order of teardown
StepRank(step) == CHOOSE i \in DOMAIN TeardownSteps : TeardownSteps[i] = step

\* the steps were started in the order of teardown, none of them twice
InTeardownOrder(steps) ==
    \A i, j \in DOMAIN steps : i < j => StepRank(steps[i]) < StepRank(steps[j])

Started(c, step) == \E i \in DOMAIN c.steps : c.steps[i] = step

\* the teardown() run by caller t returns in this step (to its caller, or
\* to the except branch of setup, which raises)
TeardownEnds(t) ==
    /\ returned'.caller = t
    /\ call'[t].pc = "idle"
    /\ \/ call[t].pc \in TeardownStages
       \/ call[t].pc = "setupFailed"
       \/ call[t].pc = "idle" /\ returned'.op = "teardown"

\* C31: teardown() performs its steps in this order: graceful shutdown over
\* the WebSocket; only if that was not acknowledged, force-stop over SSH;
\* removal of /tmp/<session_id>; the local tunnel closed last.  A failure of
\* a step does not prevent the later steps, and when teardown returns the
\* handle is not connected and holds neither websocket nor tunnel.
C31_TeardownInOrder ==
    [][\A t \in Callers :
           /\ InTeardownOrder(call'[t].steps)
           /\ Started(call'[t], "force_stop") => ~call'[t].acked
           /\ (call[t].pc \in TeardownStages /\ call'[t].pc \notin TeardownStages)
                  => TeardownEnds(t)
           /\ TeardownEnds(t) =>
                  /\ ~IsConnected(host')
                  /\ host'.websocket = NoWs
                  /\ ~host'.tunnel_process]_vars

\* what _rpc returns after _recover_transport returned False
RecoveryErrors ==
    {ErrTunnel, ErrWebSocket, ErrRecovery, ErrCannotConnect, ErrConnectionLost}

\* the _recover_transport of caller t returns False in this step (and its
\* _rpc returns the error)
ReturnsFalse(t) ==
    /\ call[t].pc \in RecoverStages
    /\ call'[t].pc = "idle"
    /\ returned'.caller = t
    /\ returned'.value.error \in RecoveryErrors

\* the stage of the _recover_transport of caller t that was awaited raises
\* in this step: the call leaves it for the except branch
RecoveryFailsAt(t, stage, next) ==
    /\ call[t].pc = stage
    /\ call'[t] # call[t]
    /\ call'[t].pc = "recDown" \/ ReturnsFalse(t) \/ call'[t].pc # next

\* the _recover_transport of caller t returns True in this step
ReturnsTrue(t) ==
    /\ call[t].pc = "recAuth"
    /\ call'[t] # call[t]
    /\ call'[t].pc # "recDown"
    /\ ~ReturnsFalse(t)

\* the transport of the handle is down
IsDown(h) ==
    /\ ~h.running /\ ~h.authenticated
    /\ h.websocket = NoWs /\ ~h.tunnel_process

\* C32: _recover_transport returns false whenever the tunnel, the WebSocket
\* connect or the authentication fails, and then the handle is down (not
\* running, not authenticated, no websocket, no tunnel) with
\* last_recovery_error naming the failed stage; it returns true only with
\* the handle running, authenticated and holding a websocket and a tunnel.
C32_RecoverTransportOutcome ==
    [][\A t \in Callers :
           /\ RecoveryFailsAt(t, "recTunnel", "recWs") =>
                  host'.last_recovery_error = ErrTunnel
           /\ RecoveryFailsAt(t, "recWs", "recAuth") =>
                  host'.last_recovery_error = ErrWebSocket
           /\ (call[t].pc = "recDown" /\ call'[t] # call[t]) => ReturnsFalse(t)
           /\ ReturnsFalse(t) =>
                  /\ IsDown(host')
                  /\ host'.last_recovery_error \in
                         {ErrTunnel, ErrWebSocket, ErrRecovery}
                  /\ returned'.value = Err(host'.last_recovery_error)
           /\ ReturnsTrue(t) =>
                  /\ host.websocket # NoWs
                  /\ host.tunnel_process]_vars

(***************************************************************************)
(* Claims about send_and_capture                                           *)
(***************************************************************************)
\* the lines the command has printed when it has finished
CommandOutput == [i \in 1..shell.lines |-> PaneLine("out", i)]

\* send_and_capture returns in this step
CaptureReturns == capture.pc = "poll" /\ capture'.pc = "done"

\* C33: send_and_capture returns a parsed result only after the command
\* has finished and its end-marker line has been printed in the pane (the
\* result then holds the command's output and exit code), or after the
\* poll deadline with exit_code -1; it never stops polling before the
\* deadline while the command is still running, whatever the pane shows.
C33_ReturnsAfterEndMarkerOrDeadline ==
    [][CaptureReturns =>
          \/ /\ ~capture'.timed_out
             /\ shell.pc = "finished"
             /\ capture'.result = [output |-> CommandOutput,
                                   exit_code |-> shell.code]
          \/ /\ capture'.timed_out
             /\ capture.polls = MaxPolls
             /\ capture'.result.exit_code = -1]_vars

(***************************************************************************)
(* Claims about the bound and the order of the response cache              *)
(***************************************************************************)
\* the request_ids of the eviction order
OrderIds(order) == {order[i] : i \in DOMAIN order}

\* the entry of the cache that comes first in the eviction order
EarliestCached(results, order) ==
    order[CHOOSE i \in DOMAIN order :
             /\ order[i] \in DOMAIN results
             /\ \A j \in 1..(i - 1) : order[j] \notin DOMAIN results]

\* the entries that leave the cache in this step
EvictedNow == (DOMAIN REQUEST_RESULTS) \ (DOMAIN REQUEST_RESULTS')

\* C34: the cache of completed responses never holds more than
\* _REQUEST_CACHE_MAX entries, and eviction is FIFO: an entry leaves the
\* cache only when it is the earliest-cached entry still present and the
\* cache with the new entry would exceed the bound.
C34_BoundedFifoCache ==
    [][/\ Cardinality(DOMAIN REQUEST_RESULTS') <= CacheMax
       /\ \A r \in EvictedNow :
             /\ r = EarliestCached(REQUEST_RESULTS, REQUEST_ORDER)
             /\ Cardinality((DOMAIN REQUEST_RESULTS)
                               \cup (DOMAIN REQUEST_RESULTS')) > CacheMax]_vars

\* C40: each request_id occurs at most once in _REQUEST_ORDER, and the ids
\* of _REQUEST_ORDER are the keys of _REQUEST_RESULTS.
C40_OrderMatchesResults ==
    /\ \A i, j \in DOMAIN REQUEST_ORDER :
          REQUEST_ORDER[i] = REQUEST_ORDER[j] => i = j
    /\ OrderIds(REQUEST_ORDER) = DOMAIN REQUEST_RESULTS

(***************************************************************************)
(* Claims about calls that follow a timed-out call                         *)
(***************************************************************************)
\* no other caller is waiting for a response on the websocket of caller t
RecvAlone(t) ==
    \A u \in Callers \ {t} : ~(call[u].pc = "recv" /\ call[u].ws = call[t].ws)

\* C35: a timed-out RPC does not break later RPCs on the same connection:
\* when the server answers every request it receives, the frame a call
\* reads is the answer to its own request, so the call does not return the
\* mismatch error because of the late answer to a timed-out request.
C35_TimeoutLeavesLaterCallsIntact ==
    [][\A t \in Callers :
           (ReadsFrame(t) /\ RecvAlone(t) /\ FrameRead(t).rid # NoRid) =>
               /\ FrameRead(t).rid = call[t].rid
               /\ returned'.value # Err(ErrMismatched)]_vars

(***************************************************************************)
(* Claims about requests that join a request in flight                     *)
(***************************************************************************)
\* the in-flight entries removed in this step
RemovedInflight == (DOMAIN REQUEST_INFLIGHT) \ (DOMAIN REQUEST_INFLIGHT')

\* C36: the in-flight future of a request_id is resolved before its entry
\* is removed from _REQUEST_INFLIGHT, however the dispatching handler ends;
\* a handler that joined a request in flight is never left awaiting a
\* future that nobody will resolve (so it receives a response); and
\* _REQUEST_INFLIGHT holds no entry of a dispatch that has ended.
C36_InflightResolvedBeforeRemoval ==
    [][/\ \A rid \in RemovedInflight : FutureDone(REQUEST_INFLIGHT[rid])
       /\ \A c \in Conns :
             spc'[c] = "join" => cur'[c].request_id \in DOMAIN REQUEST_INFLIGHT'
       /\ \A rid \in DOMAIN REQUEST_INFLIGHT' :
             /\ spc'[REQUEST_INFLIGHT'[rid]] \in {"dispatch", "send", "sendErr"}
             /\ cur'[REQUEST_INFLIGHT'[rid]].request_id = rid]_vars

(***************************************************************************)
(* Claims about the tmux session under two open connections                *)
(***************************************************************************)
\* a connection whose executor has a running tmux session before and after
\* this step, the session existing before it
KeepsSession(d) ==
    /\ executor[d] = "running"
    /\ executor'[d] = "running"
    /\ pane # NoPane

\* the states the shell of the session can be in after a step that did
\* not destroy the session
PaneAfterStep == {pane} \cup {ShellAfter(pane, command) : command \in ShellCommands}

\* C37: with two connections open, the start of one (the creation of its
\* tmux session on its first exec) or its end (executor.cleanup) never
\* destroys the tmux session the other connection is using: the shell of
\* that session keeps its state.
C37_OtherConnectionKeepsSession ==
    [][(use_tmux /\ \E d \in Conns : KeepsSession(d)) =>
           pane' \in PaneAfterStep]_vars

(***************************************************************************)
(* Claims about the manager under add_host, remove_host and disconnect_all *)
(***************************************************************************)
\* every call of the manager has returned
AllReturned == \A k \in AllTasks : mtask[k].pc = "idle"

TeardownBegins(h) ==
    handles[h].state # "teardown" /\ handles'[h].state = "teardown"

====
